---- MODULE Spec2Model ----
(***************************************************************************)
(* A model of the mesh readers of source/grid/grid_in.cc (class GridIn).   *)
(*                                                                         *)
(* One read call is one behaviour.  Init fixes the build (debug or         *)
(* release, with or without NetCDF), the template arguments dim and        *)
(* spacedim, and the arguments of the call.  The dispatcher is one step;   *)
(* every parser then consumes its input record by record (one step per     *)
(* header, per vertex block, per element record, per group record), the    *)
(* records being chosen by the environment from small sets; the last step  *)
(* of a parser is its canonicalization and the call of the sink.           *)
(*                                                                         *)
(* AssertThrow(c, e) throws e when c is false, in every build.             *)
(* The debug-only assertion macro of deal.II is compiled out in release    *)
(* builds; in debug builds its failure ends the call with result "abort"   *)
(* (the program aborts, or, with abort-on-exception disabled, throws).     *)
(***************************************************************************)
EXTENDS Integers, Sequences, FiniteSets, TLC

(***************************************************************************)
(* Bounds of the model.                                                    *)
(***************************************************************************)
\* most vertex records in a stream
MaxVertices == 2
\* most element records a stream read declares
MaxEntries == 2
\* most element records a file opened by name declares
MaxFileEntries == 1
\* width of unsigned int, scaled down (the program has 32)
UIntBits == 12

(***************************************************************************)
(* Program constants.                                                      *)
(***************************************************************************)
\* types::material_id, types::boundary_id, types::manifold_id: "a fixed
\* small unsigned type"; 2^IdBits - 1 is the reserved sentinel
IdBits == 8

Pow2(n) == 2 ^ n

invalid_unsigned_int == Pow2(UIntBits) - 1
invalid_material_id == Pow2(IdBits) - 1
internal_face_boundary_id == Pow2(IdBits) - 1
flat_manifold_id == Pow2(IdBits) - 1

\* static_cast<types::material_id>(x) and its siblings: x modulo 2^IdBits
narrow_id(x) == x % Pow2(IdBits)

\* GeometryInfo<d>::vertices_per_cell
vertices_per_cell(d) == Pow2(d)

Formats == {"dbmesh", "msh", "vtk", "unv", "ucd", "abaqus", "xda", "netcdf",
            "tecplot", "assimp"}

\* (dim, spacedim) pairs GridIn is instantiated for
Instances == {<<1, 1>>, <<2, 2>>, <<2, 3>>, <<3, 3>>}

(***************************************************************************)
(* File names and suffixes are sequences of characters.                    *)
(***************************************************************************)
npos == invalid_unsigned_int

\* std::string::find_last_of(c): the last 0-based position of c, or npos
find_last_of(s, c) ==
  LET hits == {i \in 1..Len(s) : s[i] = c}
  IN  IF hits = {} THEN npos
      ELSE (CHOOSE i \in hits : \A j \in hits : j <= i) - 1

\* std::string::substr(pos): the characters from 0-based position pos on
substr(s, pos) == SubSeq(s, pos + 1, Len(s))

Suffixes == { <<"m", "s", "h">>, <<"v", "t", "k">>, <<"u", "n", "v">>,
              <<"i", "n", "p">>, <<"x", "d", "a">>, <<"n", "c">>,
              <<"d", "a", "t">>, <<"d", "b", "m", "e", "s", "h">>,
              <<"u", "c", "d">>, <<"n", "e", "t", "c", "d", "f">>,
              <<"t", "e", "c", "p", "l", "o", "t">>, <<"p", "l", "t">>,
              <<"t", "x", "t">>, <<"a", "b", "a", "q", "u", "s">>, <<>> }

\* the names a read by name is called with: with and without a directory,
\* with and without a suffix, a dot in the directory part
Names == { <<"g", ".">> \o e : e \in Suffixes }
           \cup { <<"g">>, <<"d", ".", "v", "/", "g">>,
                  <<"d", ".", "v", "/", "g", ".", "m", "s", "h">>,
                  <<"d", "/", "g", ".", "v", "t", "k">> }

\* parse_format without the AssertThrow at its end: what is left is its
\* "return Format(Default)"; the failure of an unknown suffix rests on the
\* difference
parse_format_without_throw(format_name) ==
  IF format_name = <<"d", "b", "m", "e", "s", "h">> THEN "dbmesh"
  ELSE IF format_name = <<"m", "s", "h">> THEN "msh"
  ELSE IF format_name = <<"u", "n", "v">> THEN "unv"
  ELSE IF format_name = <<"v", "t", "k">> THEN "vtk"
  ELSE IF format_name = <<"i", "n", "p">> THEN "ucd"
  ELSE IF format_name = <<"u", "c", "d">> THEN "ucd"
  ELSE IF format_name = <<"x", "d", "a">> THEN "xda"
  ELSE IF format_name = <<"n", "e", "t", "c", "d", "f">> THEN "netcdf"
  ELSE IF format_name = <<"n", "c">> THEN "netcdf"
  ELSE IF format_name = <<"t", "e", "c", "p", "l", "o", "t">> THEN "tecplot"
  ELSE IF format_name = <<"d", "a", "t">> THEN "tecplot"
  ELSE IF format_name = <<"p", "l", "t">> THEN "tecplot"
  ELSE "Default"

\* GridIn::parse_format: the format a name stands for; "throw" is the
\* AssertThrow(false, ExcInvalidState()) at its end
parse_format(format_name) ==
  IF format_name = <<"d", "b", "m", "e", "s", "h">> THEN "dbmesh"
  ELSE IF format_name = <<"m", "s", "h">> THEN "msh"
  ELSE IF format_name = <<"u", "n", "v">> THEN "unv"
  ELSE IF format_name = <<"v", "t", "k">> THEN "vtk"
  ELSE IF format_name = <<"i", "n", "p">> THEN "ucd"
  ELSE IF format_name = <<"u", "c", "d">> THEN "ucd"
  ELSE IF format_name = <<"x", "d", "a">> THEN "xda"
  ELSE IF format_name = <<"n", "e", "t", "c", "d", "f">> THEN "netcdf"
  ELSE IF format_name = <<"n", "c">> THEN "netcdf"
  ELSE IF format_name = <<"t", "e", "c", "p", "l", "o", "t">> THEN "tecplot"
  ELSE IF format_name = <<"d", "a", "t">> THEN "tecplot"
  ELSE IF format_name = <<"p", "l", "t">> THEN "tecplot"
  ELSE "throw"

\* GridIn::GridIn(): default_format(ucd)
default_format == "ucd"

\* a read by name that does not look at the suffix; the choice of the
\* parser by suffix rests on the difference
format_as_given(name, format) == format

\* read(const std::string &, Format), the part that fixes the format: the
\* format stays Default when the name has no suffix
format_of_name(name, format) ==
  IF format = "Default"
    THEN LET slashpos == find_last_of(name, "/")
             dotpos   == find_last_of(name, ".")
         IN  IF dotpos < Len(name) /\ (dotpos > slashpos \/ slashpos = npos)
               THEN parse_format(substr(name, dotpos + 1))
               ELSE "Default"
    ELSE format

(***************************************************************************)
(* The mesh data of one read call.                                         *)
(*                                                                         *)
(* A vertex is kept as one number standing for its coordinates (the native *)
(* id of its record, or its position in the file where the format has no   *)
(* ids).  A CellData is [vertices, material_id, manifold_id]; boundary_id  *)
(* and material_id are one union member, kept as material_id.              *)
(***************************************************************************)
Range(f) == {f[i] : i \in DOMAIN f}

\* CellData::CellData(): material_id(0), manifold_id(flat_manifold_id)
CellData(vs) == [vertices |-> vs, material_id |-> 0,
                 manifold_id |-> flat_manifold_id]

\* the vertex indices a list of cells or sub-entities refers to
Refs(es) == UNION {Range(e.vertices) : e \in Range(es)}

\* the vertices a read declares: the k-th record (k from 0) carries this
\* native id, so that ids are 1-based and sparse
NativeId(k) == 2 * k + 1

\* the vertex ids an element record may name: present, absent, and beyond
RefIds == 1 .. (MaxVertices + 1)

\* the vertex list of an element record with n vertices
VertTuple(n, a, b) == [i \in 1..n |-> IF i = n THEN b ELSE a]

\* the tags an element record may carry: an ordinary one, the reserved
\* sentinel, one that does not fit the id type
BadTags == {Pow2(IdBits) - 1, Pow2(IdBits) + 7}

\* tag and vertex list of the element records of the environment
Variants(n) ==
  {[tag |-> 7, verts |-> VertTuple(n, 1, b)] : b \in RefIds}
    \cup {[tag |-> g, verts |-> VertTuple(n, 1, 1)] : g \in BadTags}

(***************************************************************************)
(* The canonicalizer (GridTools, GridReordering) and the sink              *)
(* (Triangulation) are not part of grid_in.cc.                             *)
(***************************************************************************)
\* GridTools::delete_unused_vertices: drops the vertices that no cell and
\* no sub-entity refers to and renumbers the rest densely.  An index that
\* is no vertex position is read out of bounds; g is what that read yields
delete_unused_vertices(v, c, l, q, g) ==
  LET used == {x \in Refs(c) \cup Refs(l) \cup Refs(q) : x < Len(v)}
      new_vertex_numbers == [i \in 0..(Len(v) - 1) |->
                               Cardinality({j \in used : j < i})]
      old_of(k) == CHOOSE i \in used : new_vertex_numbers[i] = k - 1
      ren(e) == [e EXCEPT !.vertices =
                   [k \in DOMAIN @ |-> IF @[k] < Len(v)
                                         THEN new_vertex_numbers[@[k]]
                                         ELSE g]]
  IN  [vertices       |-> [k \in 1..Cardinality(used) |-> v[old_of(k) + 1]],
       cells          |-> [k \in DOMAIN c |-> ren(c[k])],
       boundary_lines |-> [k \in DOMAIN l |-> ren(l[k])],
       boundary_quads |-> [k \in DOMAIN q |-> ren(q[k])]]

\* GridTools::delete_duplicated_vertices, the search: every vertex that is
\* not identified with an earlier one takes the first later vertex closer
\* than tol to it, and that one gets its number
RECURSIVE identified(_, _, _, _)
identified(v, tol, i, new_vertex_numbers) ==
  IF i > Len(v)
    THEN new_vertex_numbers
    ELSE LET equal == {j \in (i + 1)..Len(v) :
                         v[j] - v[i] < tol /\ v[i] - v[j] < tol}
             first == CHOOSE j \in equal : \A k \in equal : j <= k
         IN  IF new_vertex_numbers[i] # i - 1 \/ equal = {}
               THEN identified(v, tol, i + 1, new_vertex_numbers)
               ELSE identified(v, tol, i + 1,
                               [new_vertex_numbers EXCEPT ![first] = i - 1])

\* GridTools::delete_duplicated_vertices(vertices, cells, subcelldata,
\* considered_vertices, tol): one pass; the cells get the new numbers and
\* delete_unused_vertices takes away the vertices left without a cell
delete_duplicated_vertices(v, c, tol) ==
  LET new_vertex_numbers == identified(v, tol, 1, [i \in 1..Len(v) |-> i - 1])
  IN  delete_unused_vertices(
        v,
        [k \in DOMAIN c |->
           [c[k] EXCEPT !.vertices =
              [x \in DOMAIN @ |-> new_vertex_numbers[@[x] + 1]]]],
        <<>>, <<>>, 0)

\* whether delete_unused_vertices stays within its arrays
IndicesInRange(v, c, l, q) ==
  \A x \in Refs(c) \cup Refs(l) \cup Refs(q) : x < Len(v)

\* GridReordering::invert_all_cells_of_negative_grid: permutes the vertices
\* of the cells of negative volume; neg is the set of these cells (the
\* coordinates that decide it are not modelled)
invert_all_cells_of_negative_grid(c, neg) ==
  [k \in DOMAIN c |->
     IF k \in neg
       THEN [c[k] EXCEPT !.vertices =
               [i \in DOMAIN @ |-> @[Len(@) + 1 - i]]]
       ELSE c[k]]

\* the fixed local renumbering between the file's and the consumer's
\* vertex order of a cell (GeometryInfo::ucd_to_deal)
ucd_to_deal(n) ==
  IF n = 4 THEN <<1, 2, 4, 3>>
  ELSE IF n = 8 THEN <<1, 2, 6, 5, 3, 4, 8, 7>>
  ELSE [i \in 1..n |-> i]

\* GridReordering::reorder_cells
reorder_cells(c) ==
  [k \in DOMAIN c |->
     [c[k] EXCEPT !.vertices =
        [i \in DOMAIN @ |-> @[ucd_to_deal(Len(@))[i]]]]]

(***************************************************************************)
(* State.                                                                  *)
(***************************************************************************)
VARIABLES
  debug,            \* the build: TRUE when debug assertions are compiled in
  dim, spacedim,    \* the template arguments of GridIn
  call,             \* the call: [entry, name, format, flag]
  format,           \* the parser the call has reached, "none" before
  pc,               \* the position of the call
  in_ok,            \* the input stream is good (!in.fail())
  consumed,         \* records taken from the input stream so far
  n_vertices,       \* the declared vertex count
  n_cells,          \* the declared element count
  count,            \* element records handled so far (the loop counter)
  vertices,         \* std::vector<Point<spacedim>> vertices
  vertex_indices,   \* std::map<int, int>: native id -> vertex position
  cells,            \* std::vector<CellData<dim>> cells
  boundary_lines,   \* subcelldata.boundary_lines
  boundary_quads,   \* subcelldata.boundary_quads
  boundary_ids_1d,  \* read_msh: vertex position -> boundary id
  cell_indices,     \* read_unv: element label -> position in cells
  line_indices,     \* read_unv: element label -> position in boundary_lines
  quad_indices,     \* read_unv: element label -> position in boundary_quads
  gmsh_file_format, \* read_msh: 10, 22, 40 or 41; 0 before
  numElements,      \* read_msh: the element records of all entity blocks
  structured,       \* read_tecplot: the zone is an I x J grid of points
  face_boundary_ids,\* the sink, 1d: vertex -> boundary id set on that face
  tag_maps,         \* read_msh: <<dimension, entity tag>> -> physical tag
  Entities,         \* history: the entities of the $Entities section read
  block,            \* history: the first two numbers of the header of the
                    \* entity block of the elements, as the file has them
  unresolved,       \* history: the translation of the vertex ids of a cell
                    \* or sub-entity met an id that vertex_indices lacks
  narrowed,         \* history: a tag that the id type does not hold, or
                    \* that equals its reserved value, was stored as an id
  sections,         \* history: the numbers of the sections read_unv has
                    \* read, in order
  groups,           \* history: the groups of section 2467 or 2477 read
  records,          \* history: the element records read from the stream by
                    \* the loops of read_ucd, read_vtk and read_msh, in order
  abaqus,           \* read_abaqus: the stream, the line and the lists of the
                    \* Abaqus_to_UCD object; history: the lines it handled
  assimp,           \* read_assimp: remove_duplicates, tol and n_verts; the
                    \* tolerance and the coordinates are whole numbers
  steps,            \* the canonicalizer and sink calls made, in order
  tria,             \* the sink: what create_triangulation received
  cerr,             \* what the call has written to std::cerr
  input,            \* skip_comment_lines and skip_empty_lines: the
                    \* characters of the stream in, its position and state
                    \* bits, the variables c and line, the place in the code
  result,           \* "none", "ok", "fail" (exception), "abort"
  error             \* the exception or assertion that ended the call

cfg  == <<debug, dim, spacedim, call>>
hdr  == <<n_vertices, n_cells, count>>
ent  == <<tag_maps, Entities, block>>
maps == <<boundary_ids_1d, cell_indices, line_indices, quad_indices,
          gmsh_file_format, numElements, structured, face_boundary_ids,
          ent>>
unv  == <<sections, groups>>
seen == <<unresolved, narrowed, records, unv, abaqus, assimp>>
aux  == <<maps, seen>>
mesh == <<vertices, vertex_indices, cells, boundary_lines, boundary_quads,
          aux>>
io   == <<in_ok, consumed>>
out  == <<steps, tria>>
apart == <<input>>
vars == <<debug, dim, spacedim, call, format, pc, in_ok, consumed,
          n_vertices, n_cells, count, vertices, vertex_indices, cells,
          boundary_lines, boundary_quads, boundary_ids_1d, cell_indices,
          line_indices, quad_indices, gmsh_file_format, numElements,
          structured, face_boundary_ids, tag_maps, Entities, block,
          unresolved, narrowed, records, sections, groups, abaqus,
          assimp, steps, tria, cerr, input,
          result, error>>

\* the empty std::map
EmptyMap == [x \in {} |-> 0]

\* read_vtk: text[0] .. text[3], the header lines it expects; "****"
\* stands for the second line, which is not compared
text ==
  <<"# vtk DataFile Version 3.0", "****", "ASCII",
    "DATASET UNSTRUCTURED_GRID">>

\* the first four lines of the streams read_vtk is called on: the expected
\* ones, a second line of the author's, one line that differs (by its
\* case, by a blank at its end, or as the empty line of a stream at its
\* end), or a wrong third and fourth line
Heads ==
  {text, [text EXCEPT ![2] = "mesh of a plate"]}
  \cup UNION {{[text EXCEPT ![i] = l] : l \in {"", "ascii", text[i] \o " "}} :
                i \in {1, 3, 4}}
  \cup {[text EXCEPT ![3] = "BINARY", ![4] = "DATASET POLYDATA"]}

\* the calls: a parser called directly (read_ucd(in), ...), the two read
\* entry points; head is what the first four lines of the stream are
Calls ==
  {[entry |-> "parser", name |-> <<>>, format |-> f, flag |-> b,
    head |-> text] :
     f \in {"ucd", "abaqus"}, b \in BOOLEAN}
  \cup {[entry |-> "parser", name |-> <<>>, format |-> f, flag |-> FALSE,
          head |-> text] :
     f \in Formats \ {"ucd", "abaqus", "vtk"}}
  \cup {[entry |-> "parser", name |-> <<>>, format |-> "vtk",
          flag |-> FALSE, head |-> h] :
     h \in Heads}
  \cup {[entry |-> "stream", name |-> <<>>, format |-> f, flag |-> FALSE,
          head |-> text] :
     f \in Formats \cup {"Default"}}
  \cup {[entry |-> "file", name |-> n, format |-> "Default", flag |-> FALSE,
          head |-> text] :
     n \in Names}
  \cup {[entry |-> "file", name |-> <<"g">>, format |-> f, flag |-> FALSE,
          head |-> text] :
     f \in Formats}

(***************************************************************************)
(* Abaqus_to_UCD                                                           *)
(***************************************************************************)
\* a line of an ABAQUS stream, in upper case: the keyword it begins with
\* ("" when it does not begin with '*'), the name it carries (after ELSET=
\* on a card; before the first comma on a data line of *SURFACE that names
\* a set), whether GENERATE is in it, the characters that follow MATERIAL=,
\* and its numbers (on *ELEMENT the id after ELSET=EB, on *SURFACE the
\* digits of NAME=)
Line(key, name, generate, material, nums) ==
  [key |-> key, name |-> name, generate |-> generate,
   material |-> material, nums |-> nums]

Card(key) == Line(key, "", FALSE, <<>>, <<>>)

Data(nums) == Line("", "", FALSE, <<>>, nums)

\* the line of the element with number k: k and the nodes of the cell
cell_line(k) ==
  Data(<<k>> \o [i \in 1..vertices_per_cell(dim) |-> 10 * k + i])

\* the material names of the *SOLID SECTION cards
Materials ==
  {<<"M", "A", "T", "-", "7">>,
   <<"M", "A", "T", "-", "1", "2", "X">>,
   <<"M", "-", "S", "T", "-", "2">>,
   <<"A", "-", "1", "-", "2">>,
   <<"S", "T", "E", "E", "L">>}

\* *NODE with one node, *ELEMENT (with or without ELSET=EB3) with the
\* elements of these numbers
Mesh(eb, numbers) ==
  <<Card("*NODE"), Data(<<1, 0, 0>>), Line("*ELEMENT", "", FALSE, <<>>, eb)>>
  \o [i \in 1..Len(numbers) |-> cell_line(numbers[i])]

\* *ELSET, ELSET=A, GENERATE and its range line
Generated(range) == <<Line("*ELSET", "A", TRUE, <<>>, <<>>), Data(range)>>

\* the file of one element whose GENERATE card has no range line
Unranged ==
  Mesh(<<>>, <<1>>) \o <<Line("*ELSET", "A", TRUE, <<>>, <<>>)>>

\* *ELSET, ELSET=A and the lines of its members
Listed(lines) ==
  <<Line("*ELSET", "A", FALSE, <<>>, <<>>)>>
  \o [i \in 1..Len(lines) |-> Data(lines[i])]

\* *SOLID SECTION, ELSET=A, MATERIAL=m
Section(m) == <<Line("*SOLID SECTION", "A", FALSE, m, <<>>)>>

\* the numberings of the elements of a file: from 1 on, not ascending,
\* sparse, not from 1
Numberings == {<<1, 2, 3>>, <<3, 1, 2>>, <<2, 4, 6>>, <<11, 12, 13>>}

\* the ranges of the GENERATE cards
Ranges == {<<1, 3>>, <<1, 3, 2>>, <<2, 2>>, <<1, 2, 5>>, <<3, 1>>,
           <<3, 1, 1>>, <<1, 3, 0>>, <<1, 3, -1>>}

\* the face numbers of the *SURFACE lines that name an element
FaceNumbers == {-1, 0, 4, 5, 6, 7}

\* *SURFACE, NAME=SS2 and the line "e, Sf"
Faced(e, f) ==
  <<Line("*SURFACE", "", FALSE, <<>>, <<2>>), Data(<<e, f>>)>>

\* output.precision(8) of write_out_avs_ucd
Precision == 8

\* the first digit of a number above zero
RECURSIVE first_digit(_)
first_digit(v) == IF v < 10 THEN v ELSE first_digit(v \div 10)

\* output << x for the double x of a whole number, floatfield not set: the
\* digits of x when it has no more than precision() of them, else a
\* mantissa and an exponent ("1e+08"); digits is what in >> int takes of
\* the token, exponent whether something of the token is left behind it
shown(x) ==
  IF -(10 ^ Precision) < x /\ x < 10 ^ Precision
    THEN [digits |-> x, exponent |-> FALSE]
    ELSE [digits |-> IF x < 0 THEN -first_digit(-x) ELSE first_digit(x),
          exponent |-> TRUE]

\* the mesh of one element with all its nodes, the first of them with the
\* number first, and one face of it: *NODE, *ELEMENT with ELSET=EB3,
\* *SURFACE with NAME=SS2 and the line "1, S1"
Plate(first) ==
  LET node(i) == IF i = 1 THEN first ELSE 10 + i
  IN  <<Card("*NODE")>>
      \o [i \in 1..vertices_per_cell(dim) |-> Data(<<node(i), 0, 0>>)]
      \o <<Line("*ELEMENT", "", FALSE, <<>>, <<3>>),
           Data(<<1>> \o [i \in 1..vertices_per_cell(dim) |-> node(i)])>>
      \o Faced(1, 1)

\* node numbers: one written in full at precision 8, one not
NodeNumbers == {11, 10 ^ Precision}

\* *SURFACE, NAME=SS4 and the line "A, S3"
SetFaced ==
  <<Line("*SURFACE", "", FALSE, <<>>, <<4>>),
    Line("", "A", FALSE, <<>>, <<3>>)>>

\* the texts read_abaqus is called on
AbaqusTexts ==
  {<<>>,
   Mesh(<<>>, <<1, 2, 3, 4, 5>>) \o Generated(<<1, 5, 2>>)
     \o Section(<<"M", "A", "T", "E", "R", "I", "A", "L", "-", "7">>),
   <<Card("*HEADING"), Data(<<>>), Card("**"), Card("*PART")>>
     \o Mesh(<<3>>, <<1, 2>>)
     \o <<Card("*NSET"), Data(<<1>>),
          Line("*SURFACE", "", FALSE, <<>>, <<2>>), Data(<<1, 1>>),
          Data(<<2, 4>>), Card("*END PART"), Data(<<>>)>>,
   Mesh(<<>>, <<1, 2>>) \o Listed(<<<<1, 2>>>>)
     \o <<Line("*SURFACE", "", FALSE, <<>>, <<4>>),
          Line("", "A", FALSE, <<>>, <<3>>)>>,
   Unranged \o Section(<<"M", "-", "7">>)}
  \cup {Mesh(<<3>>, <<1, 2, 3>>) \o Generated(r) : r \in Ranges}
  \cup {Mesh(<<3>>, <<1, 2, 3>>) \o Generated(<<2, 3>>) \o Section(m) :
          m \in Materials}
  \cup {Mesh(<<3>>, n) \o Listed(<<<<n[2], n[3]>>>>)
          \o Section(<<"M", "-", "7">>) : n \in Numberings}
  \cup {Mesh(<<>>, <<1, 2>>) \o Listed(l) :
          l \in {<<>>, <<<<1, 2>>>>, <<<<1, 2>>, <<2, 1>>>>}}
  \cup {Mesh(<<>>, <<1, 2>>) \o Faced(e, f) :
          e \in {1, 7}, f \in FaceNumbers}
  \cup {Plate(n) : n \in NodeNumbers}
  \cup {Mesh(<<3>>, <<1, 2>>) \o c \o d :
          c \in {Section(<<"M", "-", "7">>), SetFaced},
          d \in {<<>>, Listed(<<<<1, 2>>>>)}}

\* the streams: a text whose last line ends with a newline, or does not
AbaqusStreams == {[file |-> f, nl |-> b] : f \in AbaqusTexts, b \in BOOLEAN}

\* the stringstream in_ucd before write_out_avs_ucd
NoText == [header |-> <<0, 0>>, nodes |-> <<>>, records |-> <<>>]

\* the Abaqus_to_UCD object and the stream it reads: pos lines are read,
\* eof is the eofbit, ok the result of the last std::getline, line the
\* index of the line the string holds (0: the empty string), fault the
\* exception or undefined access met; in_ucd is what write_out_avs_ucd
\* has written; log is the history: <<i, "cont">>
\* when line i is looked at after the label cont, <<i, k>> when it is read
\* by the loop of the section k
Scan(s) ==
  [file |-> s.file, nl |-> s.nl, pos |-> 0, eof |-> FALSE, ok |-> TRUE,
   line |-> 0, node_list |-> <<>>, cell_list |-> <<>>, face_list |-> <<>>,
   elsets_list |-> EmptyMap, fault |-> "none", log |-> <<>>,
   in_ucd |-> NoText]

NoScan == Scan([file |-> <<>>, nl |-> TRUE])

\* std::getline(input_stream, line): a stream that is not good() fails
\* and leaves the string; else the string is erased and takes the next
\* line; the last line without a newline sets eofbit, and nothing left
\* to extract sets eofbit and failbit
getline(a) ==
  IF a.eof
    THEN [a EXCEPT !.ok = FALSE]
    ELSE IF a.pos < Len(a.file)
      THEN [a EXCEPT !.ok = TRUE, !.pos = a.pos + 1, !.line = a.pos + 1,
                     !.eof = (a.pos + 1 = Len(a.file) /\ ~a.nl)]
      ELSE [a EXCEPT !.ok = FALSE, !.eof = TRUE, !.line = 0]

\* the string line
held(a) == IF a.line = 0 THEN Data(<<>>) ELSE a.file[a.line]

\* line[0] == '*'
star(l) == l.key # ""

\* the history keeps each line at most twice
note(a, who) ==
  [a EXCEPT !.log = IF Len(@) < 2 * Len(a.file) + 2
                      THEN Append(@, <<a.line, who>>) ELSE @]

\* the n values a line of numbers is extracted into: a failed extraction
\* leaves zero
extracted(nums, n) ==
  [i \in 1..n |-> IF i <= Len(nums) THEN nums[i] ELSE 0]

\* std::map::operator[] = value
put(map, key, value) ==
  [k \in DOMAIN map \cup {key} |-> IF k = key THEN value ELSE map[k]]

\* the table with the nodes of the faces 1 and 2 of a hexahedron in the
\* order of the cell, and with face 4 of a quadrilateral as (1,4)
face_places_unturned(d, face_cell_face_no) ==
  IF d = 2
    THEN CASE face_cell_face_no = 1 -> <<1, 2>>
           [] face_cell_face_no = 2 -> <<2, 3>>
           [] face_cell_face_no = 3 -> <<3, 4>>
           [] face_cell_face_no = 4 -> <<1, 4>>
           [] OTHER -> <<>>
    ELSE CASE face_cell_face_no = 1 -> <<1, 2, 3, 4>>
           [] face_cell_face_no = 2 -> <<5, 6, 7, 8>>
           [] face_cell_face_no = 3 -> <<1, 2, 6, 5>>
           [] face_cell_face_no = 4 -> <<2, 3, 7, 6>>
           [] face_cell_face_no = 5 -> <<3, 4, 8, 7>>
           [] face_cell_face_no = 6 -> <<1, 5, 8, 4>>
           [] OTHER -> <<>>

\* get_global_node_numbers: the places in the cell of the nodes of the
\* face; <<>> for a face number that no branch names
face_places(d, face_cell_face_no) ==
  IF d = 2
    THEN CASE face_cell_face_no = 1 -> <<1, 2>>
           [] face_cell_face_no = 2 -> <<2, 3>>
           [] face_cell_face_no = 3 -> <<3, 4>>
           [] face_cell_face_no = 4 -> <<4, 1>>
           [] OTHER -> <<>>
    ELSE CASE face_cell_face_no = 1 -> <<1, 4, 3, 2>>
           [] face_cell_face_no = 2 -> <<5, 8, 7, 6>>
           [] face_cell_face_no = 3 -> <<1, 2, 6, 5>>
           [] face_cell_face_no = 4 -> <<2, 3, 7, 6>>
           [] face_cell_face_no = 5 -> <<3, 4, 8, 7>>
           [] face_cell_face_no = 6 -> <<1, 5, 8, 4>>
           [] OTHER -> <<>>

\* get_global_node_numbers(face_cell_no, face_cell_face_no): the nodes, and
\* the exception or the access outside cell_list; entry 0 of a cell is its
\* material, entry k its k-th node.  A face number that no branch names
\* passes the AssertThrow when it is at most 4 (2d), or when the number of
\* the cell is at most 6 (3d), and the nodes stay zero
get_global_node_numbers(cell_list, d, face_cell_no, face_cell_face_no) ==
  LET places == face_places(d, face_cell_face_no)
      zeros  == [i \in 1..Pow2(d - 1) |-> 0]
  IN  IF places = <<>>
        THEN IF d = 2
               THEN [nodes |-> zeros,
                     fault |-> IF face_cell_face_no <= 4 THEN "none"
                               ELSE "ExcMessage: Invalid face number in 2d"]
               ELSE [nodes |-> zeros,
                     fault |-> IF face_cell_no <= 6 THEN "none"
                               ELSE "ExcMessage: Invalid face number in 3d"]
        ELSE IF face_cell_no \in 1..Len(cell_list)
          THEN [nodes |-> [i \in DOMAIN places |->
                             cell_list[face_cell_no][places[i] + 1]],
                fault |-> "none"]
          ELSE [nodes |-> zeros, fault |-> "ub"]

\* the decimal digits
Digits == <<"0", "1", "2", "3", "4", "5", "6", "7", "8", "9">>

digit(c) == CHOOSE v \in 0..9 : Digits[v + 1] = c

\* the number the digits at the front of s form, after acc
RECURSIVE leading(_, _)
leading(s, acc) ==
  IF s = <<>> \/ Head(s) \notin Range(Digits)
    THEN acc
    ELSE leading(Tail(s), 10 * acc + digit(Head(s)))

\* from_string(t, s, std::dec) for an int: a sign and digits at the front
\* of s give the number, anything else fails and leaves zero
from_string(s) ==
  IF s # <<>> /\ Head(s) \in Range(Digits)
    THEN leading(s, 0)
    ELSE IF Len(s) >= 2 /\ Head(s) \in {"-", "+"}
              /\ s[2] \in Range(Digits)
      THEN (IF Head(s) = "-" THEN -1 ELSE 1) * leading(Tail(s), 0)
      ELSE 0

\* line.find('-', last_equal): the first hyphen after MATERIAL=, 0 for npos
\* (the text before MATERIAL= has none)
RECURSIVE find_hyphen(_, _)
find_hyphen(s, i) ==
  IF i > Len(s) THEN 0
  ELSE IF s[i] = "-" THEN i ELSE find_hyphen(s, i + 1)

\* material_id_start = line.find('-', last_equal);
\* from_string(material_id, line.substr(material_id_start + 1), std::dec):
\* with npos the substring is the whole line, which begins with '*'
material_id_of(material) ==
  LET material_id_start == find_hyphen(material, 1)
  IN  IF material_id_start = 0
        THEN 0
        ELSE from_string(SubSeq(material, material_id_start + 1,
                                Len(material)))

\* the loop with i < elid_end as its condition
RECURSIVE generated_below_end(_, _, _)
generated_below_end(i, elid_end, elis_step) ==
  IF i < elid_end
    THEN <<i>> \o generated_below_end(i + elis_step, elid_end, elis_step)
    ELSE <<>>

\* for (i = elid_start; i <= elid_end; i += elis_step) elements.push_back(i)
RECURSIVE generated(_, _, _)
generated(i, elid_end, elis_step) ==
  IF i <= elid_end
    THEN <<i>> \o generated(i + elis_step, elid_end, elis_step)
    ELSE <<>>

\* the first fault stays
fail(a, f) == IF a.fault = "none" THEN [a EXCEPT !.fault = f] ELSE a

\* the faces the cells of a *SURFACE line give: b_indicator and the nodes
RECURSIVE faces_of(_, _, _, _)
faces_of(a, cells_of_line, b_indicator, face_number) ==
  IF cells_of_line = <<>> \/ a.fault \notin {"none", "ub"}
    THEN a
    ELSE LET g == get_global_node_numbers(a.cell_list, dim,
                                          Head(cells_of_line), face_number)
         IN  IF g.fault \notin {"none", "ub"}
               THEN fail(a, g.fault)
               ELSE faces_of(
                      [fail(a, g.fault) EXCEPT
                         !.face_list = Append(@, <<b_indicator>> \o g.nodes)],
                      Tail(cells_of_line), b_indicator, face_number)

\* what the loop of a section does with a line that does not begin with
\* '*': *NODE and *ELEMENT extract the numbers and push them (the number
\* of the element is overwritten by the material); *SURFACE pushes the
\* faces of the cells of the set named before the comma, or of the cell
\* named (a line that begins with a name elsets_list has not leaves 0 in
\* el_idx and face_number without a value: of what may follow, the end of
\* the process and the face of cell 0 and face 0 are kept); *ELSET
\* extracts "elid," until the line ends, where the comma of
\* a line of less than two numbers is not initialised; the other sections
\* skip the line
take(a, key, arg) ==
  LET l == held(a)
  IN  CASE key = "*NODE" ->
             [a EXCEPT !.node_list = Append(@, extracted(l.nums, spacedim + 1))]
        [] key = "*ELEMENT" ->
             [a EXCEPT !.cell_list =
                Append(@, [extracted(l.nums, 1 + vertices_per_cell(dim))
                             EXCEPT ![1] = arg])]
        [] key = "*SURFACE" ->
             IF l.name \in DOMAIN a.elsets_list
               THEN faces_of(a, a.elsets_list[l.name], arg,
                             extracted(l.nums, 1)[1])
               ELSE IF l.name # ""
                 THEN faces_of(fail(a, "ub"), <<0>>, arg, 0)
                 ELSE faces_of(a, <<extracted(l.nums, 2)[1]>>, arg,
                               extracted(l.nums, 2)[2])
        [] key = "*ELSET" ->
             [fail(a, IF Len(l.nums) < 2 THEN "ub" ELSE "none") EXCEPT
                !.elsets_list =
                   put(@, arg, @[arg] \o (IF l.nums = <<>> THEN <<0>>
                                                            ELSE l.nums))]
        [] OTHER -> a

\* while (std::getline(input_stream, line))
\*   { if (line[0] == '*') goto cont (break, in *ELSET); ... }
RECURSIVE section(_, _, _)
section(a, key, arg) ==
  IF a.fault \notin {"none", "ub"}
    THEN a
    ELSE LET b == getline(a)
         IN  IF ~b.ok \/ star(held(b))
               THEN b
               ELSE section(take(note(b, key), key, arg), key, arg)

\* *ELSET with GENERATE: the next line is the range; elid_start, comma,
\* elid_end and, when more follows, elis_step are extracted from it; a
\* line that does not begin with two numbers leaves comma without a
\* value; when the reader goes on all the same, elid_start is the zero of
\* a failed extraction.  A step of zero fills the vector until memory runs
\* out, a step below zero until i overflows
generate(a, elset_name) ==
  LET b          == getline(a)
      l          == held(b)
      elid_start == l.nums[1]
      elid_end   == l.nums[2]
      elis_step  == IF Len(l.nums) >= 3 THEN l.nums[3] ELSE 1
      c          == IF b.ok THEN note(b, "*ELSET") ELSE b
  IN  IF Len(l.nums) < 2
        THEN fail(getline([c EXCEPT !.elsets_list =
                                      put(@, elset_name, <<0>>)]), "ub")
        ELSE IF ~(elid_start <= elid_end)
          THEN fail(c, "ExcMessage: GENERATE upper bound")
          ELSE IF elis_step = 0
            THEN fail(c, "std::bad_alloc")
            ELSE IF elis_step < 0
              THEN fail(c, "ub")
              ELSE getline(
                     [c EXCEPT !.elsets_list =
                        put(@, elset_name,
                            generated(elid_start, elid_end, elis_step))])

\* *SOLID SECTION: elset_cells = elsets_list[elset_name], which makes an
\* empty set of a name not there; cell_list[elset_cell - 1][0] =
\* material_id, an access outside cell_list when the number is not in
\* 1..cell_list.size()
solid_section(a) ==
  LET l           == held(a)
      material_id == material_id_of(l.material)
      elset_cells == IF l.name \in DOMAIN a.elsets_list
                       THEN a.elsets_list[l.name] ELSE <<>>
      inside      == Range(elset_cells) \cap DOMAIN a.cell_list
  IN  [fail(a, IF Range(elset_cells) \subseteq DOMAIN a.cell_list
                 THEN "none" ELSE "ub") EXCEPT
         !.elsets_list = put(@, l.name, elset_cells),
         !.cell_list = [i \in DOMAIN @ |->
                          IF i \in inside
                            THEN [@[i] EXCEPT ![1] = material_id]
                            ELSE @[i]]]

\* the keywords whose branch reads lines in a loop of its own
Sections == {"*HEADING", "**", "*PART", "*NODE", "*ELEMENT", "*SURFACE",
             "*NSET"}

\* cont: one pass through the branches on the string line, up to the next
\* goto cont or to the std::getline of the outer loop
handle(a) ==
  LET l == held(a)
      d == note(a, "cont")
  IN  CASE l.key \in Sections ->
             section(d, l.key,
                     IF l.nums = <<>> THEN 0 ELSE l.nums[1])
        [] l.key = "*ELSET" ->
             IF l.generate
               THEN generate(d, l.name)
               ELSE section([d EXCEPT !.elsets_list = put(@, l.name, <<>>)],
                            "*ELSET", l.name)
        [] l.key = "*SOLID SECTION" -> getline(solid_section(d))
        [] OTHER -> getline(d)

(***************************************************************************)
(* skip_comment_lines and skip_empty_lines on a stream of characters.      *)
(***************************************************************************)
\* the longest stream looked at
MaxChars == 4

LF == "\n"

\* the comment starter, a space, any other character, the line end
Chars == {"#", " ", "x", LF}

Texts == UNION {[1..n -> Chars] : n \in 0..MaxChars}

\* a stream before anything is read from it; got is what the last get
\* returned ("" for Traits::eof()), at the place in the code
Stream(t) ==
  [text |-> t, pos |-> 0, eof |-> FALSE, fail |-> FALSE, got |-> "",
   line |-> <<>>, at |-> "skip_comment_lines"]

NoInput == [Stream(<<>>) EXCEPT !.at = "none"]

\* in.good()
is_good(s) == ~s.eof /\ ~s.fail

\* in.get(c), in.get(): the sentry fails on a stream that is not good; at
\* the end of the characters eofbit and failbit are set
get(s) ==
  IF ~is_good(s)
    THEN [s EXCEPT !.fail = TRUE, !.got = ""]
    ELSE IF s.pos < Len(s.text)
      THEN [s EXCEPT !.pos = @ + 1, !.got = s.text[s.pos + 1]]
      ELSE [s EXCEPT !.eof = TRUE, !.fail = TRUE, !.got = ""]

\* the characters from position p up to the line end or the end
RECURSIVE rest_of_line(_, _)
rest_of_line(t, p) ==
  IF p >= Len(t) \/ t[p + 1] = LF
    THEN <<>>
    ELSE <<t[p + 1]>> \o rest_of_line(t, p + 1)

\* getline(in, line): nothing when the stream is not good; else the
\* characters up to the line end, which is taken from the stream and not
\* stored; eofbit when the end comes first, failbit too when nothing at all
\* was taken
getline_of(s) ==
  IF ~is_good(s)
    THEN [s EXCEPT !.fail = TRUE]
    ELSE LET l     == rest_of_line(s.text, s.pos)
             after == s.pos + Len(l)
         IN  IF after < Len(s.text)
               THEN [s EXCEPT !.line = l, !.pos = after + 1]
               ELSE [s EXCEPT !.line = l, !.pos = after, !.eof = TRUE,
                              !.fail = (l = <<>>)]

\* the line has a character that is not a space
not_blank(l) == \E i \in DOMAIN l : l[i] # " "

\* in.putback('\n') and in.putback(line[i]) from the last character to the
\* first: putback clears eofbit; the line end put back is the character
\* before the position unless the stream ended without one, and then it is
\* up to the stream buffer whether a character that was not there is taken
\* back (taken) or badbit is set and the position stays
putback_line(s, taken) ==
  IF s.pos > 0 /\ s.text[s.pos] = LF
    THEN [s EXCEPT !.eof = FALSE, !.pos = @ - Len(s.line) - 1]
    ELSE IF taken
      THEN [s EXCEPT !.eof = FALSE, !.pos = @ - Len(s.line)]
      ELSE [s EXCEPT !.eof = FALSE, !.fail = TRUE]

\* the element records a call may declare
EntryBound == IF call.entry = "parser" THEN MaxEntries ELSE MaxFileEntries

Init ==
  /\ debug \in BOOLEAN
  /\ \E i \in Instances : dim = i[1] /\ spacedim = i[2]
  /\ call \in Calls
  /\ format = "none"
  /\ pc = "idle"
  /\ in_ok = TRUE
  /\ consumed = 0
  /\ n_vertices = 0
  /\ n_cells = 0
  /\ count = 0
  /\ vertices = <<>>
  /\ vertex_indices = EmptyMap
  /\ cells = <<>>
  /\ boundary_lines = <<>>
  /\ boundary_quads = <<>>
  /\ boundary_ids_1d = EmptyMap
  /\ cell_indices = EmptyMap
  /\ line_indices = EmptyMap
  /\ quad_indices = EmptyMap
  /\ gmsh_file_format = 0
  /\ numElements = 0
  /\ structured = FALSE
  /\ face_boundary_ids = EmptyMap
  /\ tag_maps = EmptyMap
  /\ Entities = {}
  /\ block = <<>>
  /\ unresolved = FALSE
  /\ narrowed = FALSE
  /\ records = <<>>
  /\ sections = <<>>
  /\ groups = <<>>
  /\ abaqus = NoScan
  /\ assimp = [remove_duplicates |-> FALSE, tol |-> 0, n_verts |-> 0]
  /\ steps = <<>>
  /\ tria = <<>>
  /\ cerr = <<>>
  /\ input = NoInput
  /\ result = "none"
  /\ error = "none"

\* the try block of read_abaqus: the call of read_ucd on in_ucd
in_try_of_whole_read == format = "abaqus"

in_try == format = "abaqus" /\ pc \notin {"begin", "scan", "write"}

\* the catch clause without the output of exc.what()
Throw_without_what(e) ==
  /\ pc' = "done"
  /\ result' = "fail"
  /\ error' = IF in_try THEN "ExcMessage: ABAQUS conversion" ELSE e
  /\ UNCHANGED <<cerr, apart>>

\* an exception leaves the call; one that comes out of the read_ucd that
\* read_abaqus calls is caught there, its what() is written to std::cerr
\* and an ExcMessage with a fixed text is thrown
Throw(e) ==
  /\ pc' = "done"
  /\ result' = "fail"
  /\ error' = IF in_try THEN "ExcMessage: ABAQUS conversion" ELSE e
  /\ cerr' = IF in_try THEN Append(cerr, e) ELSE cerr
  /\ UNCHANGED apart

\* a failed debug assertion, or an access outside an array
Abort(e) ==
  /\ pc' = "done" /\ result' = "abort" /\ error' = e
  /\ UNCHANGED <<cerr, apart>>

\* the call goes on at position p
Goto(p) == pc' = p /\ UNCHANGED <<result, error, cerr, apart>>

\* the call returns
Return == pc' = "done" /\ result' = "ok" /\ UNCHANGED <<error, cerr, apart>>

(***************************************************************************)
(* The entry points.                                                       *)
(***************************************************************************)
\* a parser called directly on a stream (or, read_netcdf and read_assimp,
\* on a file name)
call_parser ==
  /\ pc = "idle" /\ call.entry = "parser"
  /\ format' = call.format
  /\ Goto("begin")
  /\ UNCHANGED <<cfg, hdr, mesh, io, out>>

\* the switch without "if (format == Default) format = default_format;"
\* before it: case Default is left by break, to the
\* Assert(false, ExcInternalError()) behind the switch; the reading of a
\* file without suffix as UCD rests on the difference
read_stream_switch_of_format_given(f) ==
  IF f \in {"netcdf", "assimp"}
    THEN /\ format' = format
         /\ IF debug THEN Abort("ExcMessage: no stream reader")
                     ELSE Return
    ELSE IF f = "Default"
      THEN /\ format' = format
           /\ IF debug THEN Abort("ExcInternalError") ELSE Return
      ELSE /\ format' = f
           /\ Goto("begin")

\* read(std::istream &, Format): the switch; netcdf and assimp have no
\* stream reader and end in a debug assertion
read_stream_switch(f) ==
  LET fmt == IF f = "Default" THEN default_format ELSE f
  IN  IF fmt \in {"netcdf", "assimp"}
        THEN /\ format' = format
             /\ IF debug THEN Abort("ExcMessage: no stream reader")
                         ELSE Return
        ELSE /\ format' = fmt
             /\ Goto("begin")

read_stream ==
  /\ pc = "idle" /\ call.entry = "stream"
  /\ read_stream_switch(call.format)
  /\ UNCHANGED <<cfg, hdr, mesh, io, out>>

\* read(const std::string &, Format): name is what PathSearch found; the
\* file is opened (or not) before the format is looked at
read_file ==
  /\ pc = "idle" /\ call.entry = "file"
  /\ \E opened \in BOOLEAN :
       LET fmt == format_of_name(call.name, call.format)
       IN  /\ in_ok' = opened
           /\ IF fmt = "throw"
                THEN Throw("ExcInvalidState") /\ format' = format
                ELSE IF fmt = "netcdf"
                  THEN format' = "netcdf" /\ Goto("begin")
                  ELSE read_stream_switch(fmt)
  /\ UNCHANGED <<cfg, hdr, mesh, consumed, out>>

(***************************************************************************)
(* The end of every parser: canonicalize, then hand over to the sink.      *)
(***************************************************************************)
\* SubCellData::check_consistency
check_consistency(d) ==
  /\ d = 1 => Len(boundary_lines) = 0
  /\ d < 3 => Len(boundary_quads) = 0

\* what an out-of-bounds read may yield
Garbage == {0, invalid_unsigned_int}

\* the calls made on the way to the sink, in order
canonical_steps(cleanup, invert) ==
  <<cleanup>>
    \o (IF invert THEN <<"invert_all_cells_of_negative_grid">> ELSE <<>>)
    \o <<"reorder_cells">>

\* the mesh after delete_unused_vertices, the inversion (when invert) and
\* reorder_cells
canonical(v, invert, g, neg) ==
  LET d  == delete_unused_vertices(v, cells, boundary_lines,
                                   boundary_quads, g)
      c1 == IF invert THEN invert_all_cells_of_negative_grid(d.cells, neg)
                      ELSE d.cells
  IN  [d EXCEPT !.cells = reorder_cells(c1)]

\* GridTools::delete_unused_vertices(vertices, cells, subcelldata);
\* (read_tecplot, structured: delete_duplicated_vertices, which takes the
\* unused vertices away as well; the points of a stream are taken to be
\* pairwise distinct)
\* [ invert_all_cells_of_negative_grid(vertices, cells); ]
\* reorder_cells(cells);
\* tria->create_triangulation_compatibility(vertices, cells, subcelldata);
\* for the vertices v and the cells and sub-entities collected; the sink
\* validates what it gets and may throw (it does when an index is no
\* vertex); after is where the parser goes on when it does not
hand_over(v, cleanup, invert, after) ==
  LET fine == IndicesInRange(v, cells, boundary_lines, boundary_quads)
  IN  \E crash \in (IF fine THEN {FALSE} ELSE BOOLEAN),
         g \in (IF fine THEN {0} ELSE Garbage),
         neg \in (IF invert THEN {{}, 1..Len(cells)} ELSE {{}}),
         created \in BOOLEAN :
        IF crash
          THEN /\ Abort("out of bounds")
               /\ steps' = Append(steps, cleanup)
               /\ UNCHANGED <<mesh, tria>>
          ELSE LET m == canonical(v, invert, g, neg)
                   accept == created /\ IndicesInRange(m.vertices, m.cells,
                                                       m.boundary_lines,
                                                       m.boundary_quads)
               IN  /\ vertices' = m.vertices
                   /\ cells' = m.cells
                   /\ boundary_lines' = m.boundary_lines
                   /\ boundary_quads' = m.boundary_quads
                   /\ steps' = steps \o canonical_steps(cleanup, invert)
                                 \o <<"create_triangulation">>
                   /\ tria' = Append(tria, [mesh |-> m, created |-> accept])
                   /\ IF ~accept THEN Throw("create_triangulation")
                      ELSE IF after = "done" THEN Return ELSE Goto(after)
                   /\ UNCHANGED <<vertex_indices, aux>>

(***************************************************************************)
(* read_ucd                                                                *)
(***************************************************************************)
\* the records of the cell section of a UCD stream, by keyword; a keyword
\* that fits no branch is looked at before any vertex id is read
UcdLive(d) == IF d = 1 THEN {"line"}
              ELSE IF d = 2 THEN {"quad", "line"}
              ELSE {"hex", "quad", "line"}

UcdVerts(t) == IF t = "line" THEN 2 ELSE IF t = "quad" THEN 4 ELSE 8

UcdRecords(d) ==
  UNION {{[cell_type |-> t, material_id |-> x.tag, vertices |-> x.verts] :
            x \in Variants(UcdVerts(t))} : t \in UcdLive(d)}
  \cup {[cell_type |-> t, material_id |-> 7, vertices |-> <<>>] :
          t \in {"line", "quad", "hex", "tri", ""} \ UcdLive(d)}

\* in >> dummy >> material_id >> cell_type and the in >> of the vertex ids
\* on a line write_out_avs_ucd has written: of a number not written in
\* full the digits before the mantissa's point or the exponent are taken;
\* behind a material id the rest is taken as the keyword
as_read(l) ==
  [cell_type |-> IF l.material_id.exponent THEN "e+08" ELSE l.cell_type,
   material_id |-> l.material_id.digits,
   vertices |-> IF l.material_id.exponent THEN <<>>
                ELSE [i \in DOMAIN l.vertices |-> l.vertices[i].digits]]

\* the streams read_ucd may get: any (from), or what read_abaqus wrote
written(from, by_abaqus) == IF format = "abaqus" THEN by_abaqus ELSE from

\* the vertex and cell counts of the header of a UCD stream; a stream read
\* in 2d may also be the square of four vertices and one cell
UcdHeaders ==
  written({<<nv, nc>> : nv \in 0..MaxVertices, nc \in 0..EntryBound}
            \cup (IF dim = 2 /\ call.entry = "parser"
                    THEN {<<vertices_per_cell(2), 1>>} ELSE {}),
          {abaqus.in_ucd.header})

\* the cell record of the square: tag 7 and the four vertex ids in the
\* order of the vertex records
SquareRecord ==
  [cell_type |-> "quad", material_id |-> 7,
   vertices |-> [i \in 1..vertices_per_cell(2) |-> NativeId(i - 1)]]

\* the cell records that may follow the vertex records read
UcdStream ==
  written(IF n_vertices > MaxVertices THEN {SquareRecord}
                                      ELSE UcdRecords(dim),
          IF count < Len(abaqus.in_ucd.records)
            THEN {as_read(abaqus.in_ucd.records[count + 1])}
            ELSE {[cell_type |-> "", material_id |-> 0, vertices |-> <<>>]})

\* Assert(tria != nullptr); AssertThrow(in, ExcIO()); skip_comment_lines;
\* in >> n_vertices >> n_cells >> dummy >> dummy >> dummy;
\* AssertThrow(in, ExcIO());
read_ucd_begin ==
  /\ \/ pc = "begin" /\ format = "ucd"
     \/ pc = "in_ucd" /\ format = "abaqus"
  /\ IF ~in_ok
       THEN Throw("ExcIO") /\ UNCHANGED <<hdr, io>>
       ELSE \E good \in written(BOOLEAN, {TRUE}), h \in UcdHeaders :
              IF good
                THEN /\ n_vertices' = h[1] /\ n_cells' = h[2]
                     /\ consumed' = consumed + 1
                     /\ Goto("ucd_vertices")
                     /\ UNCHANGED <<count, in_ok>>
                ELSE /\ in_ok' = FALSE
                     /\ Throw("ExcIO")
                     /\ UNCHANGED <<hdr, consumed>>
  /\ UNCHANGED <<cfg, format, mesh, out>>

\* the vertex block as far as the stream holds it: k whole records, then
\* (k < n_vertices) the end of the stream, where the failed extraction
\* leaves vertex_number = 0
vertex_block(n, k) ==
  [vertices |-> [i \in 1..n |-> IF i <= k THEN NativeId(i - 1) ELSE 0],
   vertex_indices |->
     [x \in {NativeId(i) : i \in 0..(k - 1)}
              \cup (IF k < n THEN {0} ELSE {}) |->
        IF x = 0 THEN k ELSE CHOOSE i \in 0..(k - 1) : NativeId(i) = x]]

\* the vertex block of the text write_out_avs_ucd has written: vertex is
\* the node number of its line; the line whose number is not written in
\* full leaves its first digits in vertex_number and ends the extractions
\* (a vertex_number met again takes the later line)
written_block(nodes) ==
  LET n == Len(nodes)
      whole == {i \in 1..n : \A j \in 1..i : ~nodes[j].exponent}
      k == Cardinality(whole)
      passed == 1..(IF k < n THEN k + 1 ELSE n)
  IN  [k |-> k,
       vertices |-> [i \in 1..n |-> IF i <= k THEN nodes[i].digits ELSE 0],
       vertex_indices |->
         [x \in {nodes[i].digits : i \in passed} |->
            (CHOOSE i \in passed :
               /\ nodes[i].digits = x
               /\ \A j \in passed : nodes[j].digits = x => j <= i) - 1]]

\* for (vertex = 0; vertex < n_vertices; ++vertex)
\*   { AssertThrow(in, ExcIO()); in >> vertex_number >> x[0] >> x[1] >> x[2];
\*     vertices[vertex] = x; vertex_indices[vertex_number] = vertex; }
\* the check at the top of the next pass, of the cell loop or after it
\* throws once the stream has failed
read_ucd_vertices ==
  /\ pc = "ucd_vertices"
  /\ \E k \in written(0..n_vertices,
                      {written_block(abaqus.in_ucd.nodes).k}) :
       LET b == IF format = "abaqus"
                  THEN written_block(abaqus.in_ucd.nodes)
                  ELSE vertex_block(n_vertices, k)
       IN  /\ vertices' = b.vertices
           /\ vertex_indices' = b.vertex_indices
           /\ in_ok' = (k = n_vertices)
           /\ consumed' = consumed + k
  /\ Goto("ucd_cells")
  /\ UNCHANGED <<cfg, format, hdr, cells, boundary_lines, boundary_quads,
                 aux, out>>

\* the translation of vertex ids that go from 1 on without a gap
to_zero_based(vs, placeholder) == [i \in DOMAIN vs |-> vs[i] - 1]

\* the transformation "from ucd to consecutive numbering" of one entity;
\* placeholder is what the else branch stores when no exception leaves it
to_consecutive(vs, placeholder) ==
  [i \in DOMAIN vs |-> IF vs[i] \in DOMAIN vertex_indices
                         THEN vertex_indices[vs[i]]
                         ELSE placeholder]

all_known(vs) == \A i \in DOMAIN vs : vs[i] \in DOMAIN vertex_indices

\* Assert(material_id <= std::numeric_limits<types::material_id>::max());
\* Assert(material_id < numbers::invalid_material_id);
id_asserts_hold(material_id) ==
  /\ material_id <= Pow2(IdBits) - 1
  /\ material_id < invalid_material_id

\* the boundary id of a line or quad when the flag is not looked at
boundary_id_of_tag(material_id) == narrow_id(material_id)

\* if (apply_all_indicators_to_manifolds)
\*   boundary_id = numbers::internal_face_boundary_id;
\* else boundary_id = static_cast<types::boundary_id>(material_id);
boundary_id(material_id) ==
  IF call.flag THEN internal_face_boundary_id ELSE narrow_id(material_id)

\* a quad taken as boundary info in every dimension that has it not as
\* its cell
is_quad_of_any_dim(cell_type) == cell_type = "quad"

\* else if ((cell_type == "quad") && (dim == 3))
is_boundary_quad(cell_type) == cell_type = "quad" /\ dim = 3

\* one pass of the loop over the n_cells records of read_ucd
read_ucd_cell ==
  /\ pc = "ucd_cells" /\ count < n_cells
  /\ IF ~in_ok
       THEN Throw("ExcIO") /\ UNCHANGED <<count, io, mesh>>
       ELSE \E r \in UcdStream :
         /\ count' = count + 1
         /\ LET is_quad == r.cell_type = "quad" /\ dim = 3
                translated ==
                  /\ r.cell_type \in UcdLive(dim)
                  /\ ~(debug /\ ~id_asserts_hold(r.material_id))
                stored ==
                  translated /\ (all_known(r.vertices) \/ (is_quad /\ ~debug))
            IN  /\ unresolved' =
                     (unresolved \/ (translated /\ ~all_known(r.vertices)))
                /\ narrowed' =
                     (narrowed \/ (stored /\ ~id_asserts_hold(r.material_id)))
                /\ records' = Append(records, r)
                /\ UNCHANGED <<unv, abaqus, assimp>>
         /\ IF r.cell_type = ""
              THEN in_ok' = FALSE /\ UNCHANGED consumed
              ELSE consumed' = consumed + 1 /\ UNCHANGED in_ok
         /\ UNCHANGED <<vertices, vertex_indices, maps>>
         /\ IF \/ (r.cell_type = "line" /\ dim = 1)
               \/ (r.cell_type = "quad" /\ dim = 2)
               \/ (r.cell_type = "hex" /\ dim = 3)
              THEN \* found a cell
                /\ UNCHANGED <<boundary_lines, boundary_quads>>
                /\ IF debug /\ ~id_asserts_hold(r.material_id)
                     THEN Abort("ExcIndexRange") /\ UNCHANGED cells
                     ELSE IF ~all_known(r.vertices)
                       THEN Throw("ExcInvalidVertexIndex") /\ UNCHANGED cells
                       ELSE /\ cells' = Append(cells,
                                 [vertices |-> to_consecutive(r.vertices, 0),
                                  material_id |-> narrow_id(r.material_id),
                                  manifold_id |->
                                    IF call.flag
                                      THEN narrow_id(r.material_id)
                                      ELSE flat_manifold_id])
                            /\ Goto("ucd_cells")
              ELSE IF r.cell_type = "line" /\ (dim = 2 \/ dim = 3)
              THEN \* boundary info
                /\ UNCHANGED <<cells, boundary_quads>>
                /\ IF debug /\ ~id_asserts_hold(r.material_id)
                     THEN Abort("ExcIndexRange") /\ UNCHANGED boundary_lines
                     ELSE IF ~all_known(r.vertices)
                       THEN /\ Throw("ExcInvalidVertexIndex")
                            /\ UNCHANGED boundary_lines
                       ELSE /\ boundary_lines' = Append(boundary_lines,
                                 [vertices |-> to_consecutive(r.vertices, 0),
                                  material_id |-> boundary_id(r.material_id),
                                  manifold_id |->
                                    IF call.flag
                                      THEN narrow_id(r.material_id)
                                      ELSE flat_manifold_id])
                            /\ Goto("ucd_cells")
              ELSE IF is_boundary_quad(r.cell_type)
              THEN \* boundary info; a missing vertex id is looked at in
                   \* debug builds only
                /\ UNCHANGED <<cells, boundary_lines>>
                /\ IF debug /\ ~id_asserts_hold(r.material_id)
                     THEN Abort("ExcIndexRange") /\ UNCHANGED boundary_quads
                     ELSE IF debug /\ ~all_known(r.vertices)
                       THEN /\ Abort("ExcInvalidVertexIndex")
                            /\ UNCHANGED boundary_quads
                       ELSE /\ boundary_quads' = Append(boundary_quads,
                                 [vertices |->
                                    to_consecutive(r.vertices,
                                                   invalid_unsigned_int),
                                  material_id |-> boundary_id(r.material_id),
                                  manifold_id |->
                                    IF call.flag
                                      THEN narrow_id(r.material_id)
                                      ELSE flat_manifold_id])
                            /\ Goto("ucd_cells")
              ELSE \* cannot read this
                /\ Throw("ExcUnknownIdentifier: " \o r.cell_type)
                /\ UNCHANGED <<cells, boundary_lines, boundary_quads>>
  /\ UNCHANGED <<cfg, format, n_vertices, n_cells, out>>

\* the end of read_ucd reached from a loop that may stop before the last
\* declared record; the count of what a successful read collects rests on
\* the difference
read_ucd_end_before_last ==
  /\ pc = "ucd_cells" /\ count <= n_cells
  /\ IF debug /\ ~check_consistency(dim)
       THEN Abort("ExcInternalError") /\ UNCHANGED <<mesh, out>>
       ELSE IF ~in_ok
         THEN Throw("ExcIO") /\ UNCHANGED <<mesh, out>>
         ELSE hand_over(vertices, "delete_unused_vertices", dim = spacedim,
                        "done")
  /\ UNCHANGED <<cfg, format, hdr, io>>

\* Assert(subcelldata.check_consistency(dim)); AssertThrow(in, ExcIO());
\* then the canonicalizer and the sink
read_ucd_end ==
  /\ pc = "ucd_cells" /\ count = n_cells
  /\ IF debug /\ ~check_consistency(dim)
       THEN Abort("ExcInternalError") /\ UNCHANGED <<mesh, out>>
       ELSE IF ~in_ok
         THEN Throw("ExcIO") /\ UNCHANGED <<mesh, out>>
         ELSE hand_over(vertices, "delete_unused_vertices", dim = spacedim, "done")
  /\ UNCHANGED <<cfg, format, hdr, io>>

(***************************************************************************)
(* read_vtk                                                                *)
(***************************************************************************)
\* the records of the CELLS section: the leading number and the vertex
\* positions that follow it; 0 is what a failed extraction leaves, 3 a
\* number without a branch
VtkLive(d) == IF d = 1 THEN {2} ELSE IF d = 2 THEN {4, 2} ELSE {8, 4, 2}

VtkRecords(d) ==
  UNION {{[type |-> t, vertices |-> VertTuple(t, 0, b)] :
            b \in 0..MaxVertices} : t \in VtkLive(d)}
  \cup {[type |-> t, vertices |-> <<>>] : t \in {0, 3}}

\* getline(in, line) for the i-th of the four header lines: a stream that
\* is not good yields the empty line
header_line(i) == IF in_ok THEN call.head[i] ELSE ""

\* the header lines that differ from text[i], the second among them; the
\* freedom of the second line rests on the difference
mismatches_of_all_lines == {i \in 1..4 : header_line(i) # text[i]}

\* the header lines that fail line.compare(text[i]) == 0; the second line
\* is not compared
mismatches == {i \in {1, 3, 4} : header_line(i) # text[i]}

\* ExcMessage("While reading VTK file, failed to find a header line with
\* text <" + text[i] + ">")
header_message(i) == "ExcMessage: header line with text <" \o text[i] \o ">"

\* the four header lines (the loop ends at the first that fails), the
\* POINTS section, the head of the CELLS section
read_vtk_begin ==
  /\ pc = "begin" /\ format = "vtk"
  /\ \E found \in {"header", "POINTS", "CELLS"},
        nv \in 0..MaxVertices, nc \in 0..EntryBound :
       IF mismatches # {}
         THEN LET i == CHOOSE j \in mismatches :
                         \A k \in mismatches : j <= k
              IN  /\ Throw(header_message(i))
                  /\ consumed' = consumed
                  /\ UNCHANGED <<hdr, vertices, in_ok>>
         ELSE IF found = "header"
           THEN /\ Throw("ExcMessage: POINTS")
                /\ consumed' = consumed + 1
                /\ UNCHANGED <<hdr, vertices, in_ok>>
           ELSE IF found = "POINTS"
             THEN /\ Throw("ExcMessage: CELLS")
                  /\ n_vertices' = nv
                  /\ vertices' = [i \in 1..nv |-> i - 1]
                  /\ consumed' = consumed + 2
                  /\ UNCHANGED <<n_cells, count, in_ok>>
             ELSE /\ Goto("vtk_cells")
                  /\ n_vertices' = nv
                  /\ vertices' = [i \in 1..nv |-> i - 1]
                  /\ n_cells' = nc
                  /\ consumed' = consumed + 3
                  /\ UNCHANGED <<count, in_ok>>
  /\ UNCHANGED <<cfg, format, vertex_indices, cells, boundary_lines,
                 boundary_quads, aux, out>>

\* the assumption on the order with the check of the quads of a 3d file
\* left out
follows_cells_only(type) ==
  ((dim = 3 /\ type = 8) \/ (dim = 2 /\ type = 4)) =>
    (Len(boundary_quads) = 0 /\ Len(boundary_lines) = 0)

\* "we assume that the file contains first all cells, then all faces, and
\* finally all lines": the conditions of the two AssertThrow of a 3d file
\* and of the one of a 2d file
follows_in_order(type) ==
  IF (dim = 3 /\ type = 8) \/ (dim = 2 /\ type = 4)
    THEN Len(boundary_quads) = 0 /\ Len(boundary_lines) = 0
    ELSE IF dim = 3 /\ type = 4
      THEN Len(boundary_lines) = 0
      ELSE TRUE

\* one pass of the loop over the n_geometric_objects records
read_vtk_cell ==
  /\ pc = "vtk_cells" /\ count < n_cells
  /\ \E r \in VtkRecords(dim) :
       /\ count' = count + 1
       /\ IF r.type = 0 THEN in_ok' = FALSE /\ UNCHANGED consumed
                        ELSE consumed' = consumed + 1 /\ UNCHANGED in_ok
       /\ records' = Append(records, r)
       /\ UNCHANGED <<vertices, vertex_indices, maps, unresolved, abaqus, assimp, narrowed,
                      unv>>
       /\ IF (dim = 3 /\ r.type = 8) \/ (dim = 2 /\ r.type = 4)
            THEN /\ UNCHANGED <<boundary_lines, boundary_quads>>
                 /\ IF follows_in_order(r.type)
                      THEN /\ cells' = Append(cells, CellData(r.vertices))
                           /\ Goto("vtk_cells")
                      ELSE Throw("ExcNotImplemented") /\ UNCHANGED cells
            ELSE IF dim = 3 /\ r.type = 4
            THEN /\ UNCHANGED <<cells, boundary_lines>>
                 /\ IF follows_in_order(r.type)
                      THEN /\ boundary_quads' =
                                Append(boundary_quads, CellData(r.vertices))
                           /\ Goto("vtk_cells")
                      ELSE /\ Throw("ExcNotImplemented")
                           /\ UNCHANGED boundary_quads
            ELSE IF (dim = 3 \/ dim = 2) /\ r.type = 2
            THEN /\ UNCHANGED <<cells, boundary_quads>>
                 /\ boundary_lines' =
                      Append(boundary_lines, CellData(r.vertices))
                 /\ Goto("vtk_cells")
            ELSE IF dim = 1 /\ r.type = 2
            THEN /\ UNCHANGED <<boundary_lines, boundary_quads>>
                 /\ cells' = Append(cells, CellData(r.vertices))
                 /\ Goto("vtk_cells")
            ELSE /\ Throw("ExcMessage: unknown cell type")
                 /\ UNCHANGED <<cells, boundary_lines, boundary_quads>>
  /\ UNCHANGED <<cfg, format, n_vertices, n_cells, out>>

\* static_cast<types::material_id>(id) of a double: the value when the type
\* holds it, anything otherwise (wrapped: one of the two outcomes kept)
cast_id(id, wrapped) ==
  IF id < Pow2(IdBits) THEN id ELSE IF wrapped THEN narrow_id(id) ELSE 0

\* the ids of one SCALARS data set, one for each object: 7, 8, ... or the
\* same with the first or the last of them out of the ordinary
VtkIds(n) ==
  {[i \in 1..n |-> 6 + i]}
  \cup {[i \in 1..n |-> IF i = p THEN b ELSE 6 + i] :
          p \in {1, n} \cap (1..n), b \in BadTags}

\* the objects read all name vertex 0 only
vtk_plain ==
  \A e \in Range(cells) \cup Range(boundary_lines) \cup Range(boundary_quads) :
    \A i \in DOMAIN e.vertices : e.vertices[i] = 0

\* what may follow CELL_TYPES; the streams looked at vary the vertex
\* positions or the ids, not both
VtkData(n) ==
  {[found |-> f, set |-> "", ids |-> <<>>] :
     f \in {"nothing", "CELL_TYPES", "CELL_DATA", "SCALARS"}}
  \cup {[found |-> "LOOKUP_TABLE", set |-> s, ids |-> x] :
          s \in {"MaterialID", "ManifoldID"},
          x \in IF vtk_plain THEN VtkIds(n) ELSE {[i \in 1..n |-> 6 + i]}}

\* the objects in the order the ids are read for them
set_ids(es, set, ids, offset) ==
  [i \in 1..Len(es) |->
     IF set = "MaterialID"
       THEN [es[i] EXCEPT !.material_id = ids[offset + i]]
       ELSE [es[i] EXCEPT !.manifold_id = ids[offset + i]]]

\* CELL_TYPES and its count, the optional CELL_DATA section with one
\* SCALARS data set: ids for all cells, then all quads, then all lines
read_vtk_cell_data ==
  /\ pc = "vtk_cells" /\ count = n_cells
  /\ \E d \in VtkData(n_cells) :
       /\ narrowed' =
            (narrowed \/ (/\ d.found = "LOOKUP_TABLE"
                          /\ \E i \in 1..n_cells : ~id_asserts_hold(d.ids[i])))
       /\ IF d.found = "nothing"
         THEN /\ Throw("ExcMessage: CELL_TYPES")
              /\ in_ok' = FALSE
              /\ UNCHANGED <<consumed, cells, boundary_lines, boundary_quads>>
         ELSE IF d.found = "CELL_DATA"
           THEN /\ Throw("ExcMessage: CELL_DATA count")
                /\ consumed' = consumed + 2
                /\ UNCHANGED <<in_ok, cells, boundary_lines, boundary_quads>>
         ELSE IF d.found = "SCALARS"
           THEN /\ Throw("ExcMessage: LOOKUP_TABLE")
                /\ consumed' = consumed + 3
                /\ UNCHANGED <<in_ok, cells, boundary_lines, boundary_quads>>
         ELSE IF d.found = "CELL_TYPES"
           THEN /\ Goto("vtk_end")
                /\ consumed' = consumed + 1
                /\ in_ok' = FALSE
                /\ UNCHANGED <<cells, boundary_lines, boundary_quads>>
           ELSE \E wrapped \in BOOLEAN :
                LET ids == [i \in 1..n_cells |-> cast_id(d.ids[i], wrapped)]
                IN
                  /\ Goto("vtk_end")
                  /\ consumed' = consumed + 4
                  /\ UNCHANGED in_ok
                  /\ cells' = set_ids(cells, d.set, ids, 0)
                  /\ boundary_quads' =
                       set_ids(boundary_quads, d.set, ids, Len(cells))
                  /\ boundary_lines' =
                       set_ids(boundary_lines, d.set, ids,
                               Len(cells) + Len(boundary_quads))
  /\ UNCHANGED <<cfg, format, hdr, vertices, vertex_indices, maps,
                 unresolved, abaqus, assimp, records, unv, out>>

\* Assert(subcelldata.check_consistency(dim)), the canonicalizer, the sink
read_vtk_end ==
  /\ pc = "vtk_end"
  /\ IF debug /\ ~check_consistency(dim)
       THEN Abort("ExcInternalError") /\ UNCHANGED <<mesh, out>>
       ELSE hand_over(vertices, "delete_unused_vertices", dim = spacedim, "done")
  /\ UNCHANGED <<cfg, format, hdr, io>>

(***************************************************************************)
(* read_unv                                                                *)
(***************************************************************************)
\* std::map::operator[]: a key that is not there is inserted with value 0
inserted(m, keys) ==
  [x \in DOMAIN m \cup keys |-> IF x \in DOMAIN m THEN m[x] ELSE 0]

\* the label of the element record that follows c records
ElementLabel(c) == 10 + c

\* the records of section 2412: 44 and 115 are a quadrilateral and a
\* hexahedron, 11 is a line, 5 is a type the reader does not know, 0 what
\* the end of the stream leaves, -1 the end of the section
UnvLive(d) == IF d = 2 THEN {44, 11} ELSE IF d = 3 THEN {115, 44, 11} ELSE {}

UnvVerts(t) == IF t = 11 THEN 2 ELSE IF t = 44 THEN 4 ELSE 8

UnvRecords(d) ==
  UNION {{[type |-> t, vertices |-> VertTuple(UnvVerts(t), 1, b)] :
            b \in RefIds} : t \in UnvLive(d)}
  \cup {[type |-> t, vertices |-> <<>>] :
          t \in ({0, 5, 11, 44, 115} \ UnvLive(d))}

\* the checks of the section numbers left out
any_section(tmp, place) == TRUE

\* AssertThrow(tmp == 2411, ExcUnknownSectionType(tmp)) for the first
\* section, AssertThrow(tmp == 2412, ...) for the second,
\* AssertThrow((tmp == 2467) || (tmp == 2477), ...) for the third
expected_section(tmp, place) ==
  IF place = 1 THEN tmp = 2411
  ELSE IF place = 2 THEN tmp = 2412
  ELSE tmp = 2467 \/ tmp = 2477

\* Assert(tria != nullptr); Assert((dim == 2) || (dim == 3));
\* AssertThrow(in, ExcIO()); in >> tmp; in >> tmp;
\* AssertThrow(tmp == 2411, ExcUnknownSectionType(tmp)); tmp is 0 when the
\* stream ends before the number
read_unv_begin ==
  /\ pc = "begin" /\ format = "unv"
  /\ IF debug /\ dim \notin {2, 3}
       THEN Abort("ExcNotImplemented") /\ UNCHANGED <<io, sections>>
       ELSE IF ~in_ok
         THEN Throw("ExcIO") /\ UNCHANGED <<io, sections>>
         ELSE \E tmp \in {0, 2412, 2411} :
                IF tmp = 0
                  THEN /\ Throw("ExcIO") /\ in_ok' = FALSE
                       /\ UNCHANGED <<consumed, sections>>
                  ELSE /\ consumed' = consumed + 1
                       /\ sections' = Append(sections, tmp)
                       /\ UNCHANGED in_ok
                       /\ IF ~expected_section(tmp, 1)
                            THEN Throw("ExcUnknownSectionType")
                            ELSE Goto("unv_vertices")
  /\ UNCHANGED <<cfg, format, hdr, vertices, vertex_indices, cells,
                 boundary_lines, boundary_quads, maps, unresolved, abaqus, assimp, narrowed,
                 records, groups, out>>

\* section 2411 up to its -1, then the head of the next section
read_unv_vertices ==
  /\ pc = "unv_vertices"
  /\ \E k \in 0..MaxVertices, tmp \in {0, 2467, 2412} :
       /\ vertices' = [i \in 1..k |-> NativeId(i - 1)]
       /\ vertex_indices' = vertex_block(k, k).vertex_indices
       /\ n_vertices' = k
       /\ IF tmp = 0
            THEN /\ Throw("ExcIO") /\ in_ok' = FALSE
                 /\ consumed' = consumed + k
                 /\ UNCHANGED sections
            ELSE /\ consumed' = consumed + k + 1
                 /\ sections' = Append(sections, tmp)
                 /\ UNCHANGED in_ok
                 /\ IF ~expected_section(tmp, 2)
                      THEN Throw("ExcUnknownSectionType")
                      ELSE Goto("unv_cells")
  /\ UNCHANGED <<cfg, format, n_cells, count, cells, boundary_lines,
                 boundary_quads, maps, unresolved, abaqus, assimp, narrowed, records, groups,
                 out>>

\* an element of section 2412 that is a quadrilateral
unv_quad_in_any_dim(type) == type \in {44, 94}

\* ((type == 44) || (type == 94)) && (dim == 3): a boundary quad
unv_boundary_quad(type) == type \in {44, 94} /\ dim = 3

\* one pass of the loop over section 2412 that reads an element
read_unv_cell ==
  /\ pc = "unv_cells" /\ count < EntryBound
  /\ \E r \in UnvRecords(dim), uninitialized \in {5, 11} :
       LET no   == ElementLabel(count)
           type == IF r.type = 0 THEN uninitialized ELSE r.type
           vs   == to_consecutive(r.vertices, 0)
           absent == {r.vertices[i] : i \in DOMAIN r.vertices}
                       \ DOMAIN vertex_indices
       IN
       /\ count' = count + 1
       /\ IF r.type = 0 THEN in_ok' = FALSE /\ UNCHANGED consumed
                        ELSE consumed' = consumed + 1 /\ UNCHANGED in_ok
       /\ UNCHANGED <<vertices, boundary_ids_1d, gmsh_file_format,
                      numElements, structured, face_boundary_ids, ent, narrowed, abaqus, assimp,
                      records, unv>>
       /\ unresolved' = (unresolved \/ (r.type \in UnvLive(dim) /\ absent # {}))
       /\ IF type \notin {11, 44, 94, 115}
            THEN /\ Throw("ExcUnknownElementType")
                 /\ UNCHANGED <<vertex_indices, cells, boundary_lines,
                                boundary_quads, cell_indices, line_indices,
                                quad_indices>>
            ELSE IF r.type = 0
            THEN /\ Throw("ExcIO")
                 /\ UNCHANGED <<vertex_indices, cells, boundary_lines,
                                boundary_quads, cell_indices, line_indices,
                                quad_indices>>
            ELSE IF (type \in {44, 94} /\ dim = 2) \/ (type = 115 /\ dim = 3)
            THEN /\ cells' = Append(cells, CellData(vs))
                 /\ vertex_indices' = inserted(vertex_indices, absent)
                 /\ cell_indices' = (no :> Len(cells)) @@ cell_indices
                 /\ Goto("unv_cells")
                 /\ UNCHANGED <<boundary_lines, boundary_quads, line_indices,
                                quad_indices>>
            ELSE IF type = 11 /\ (dim = 2 \/ dim = 3)
            THEN /\ boundary_lines' = Append(boundary_lines, CellData(vs))
                 /\ vertex_indices' = inserted(vertex_indices, absent)
                 /\ line_indices' = (no :> Len(boundary_lines)) @@ line_indices
                 /\ Goto("unv_cells")
                 /\ UNCHANGED <<cells, boundary_quads, cell_indices,
                                quad_indices>>
            ELSE IF unv_boundary_quad(type)
            THEN /\ boundary_quads' = Append(boundary_quads, CellData(vs))
                 /\ vertex_indices' = inserted(vertex_indices, absent)
                 /\ quad_indices' = (no :> Len(boundary_quads)) @@ quad_indices
                 /\ Goto("unv_cells")
                 /\ UNCHANGED <<cells, boundary_lines, cell_indices,
                                line_indices>>
            ELSE /\ Throw("ExcMessage: unknown element label")
                 /\ UNCHANGED <<vertex_indices, cells, boundary_lines,
                                boundary_quads, cell_indices, line_indices,
                                quad_indices>>
  /\ UNCHANGED <<cfg, format, n_vertices, n_cells, out>>

\* the elements read all name vertex 1 only
unv_plain ==
  \A e \in Range(cells) \cup Range(boundary_lines) \cup Range(boundary_quads) :
    \A i \in DOMAIN e.vertices : e.vertices[i] = 0

\* what may follow the -1 of section 2412: the end of the stream, a section
\* that is not 2467 or 2477, a group cut short, or one or two groups, each
\* with an id and the list of the labels of its entities; the streams
\* looked at vary the vertex ids or the groups, not both
UnvGroups ==
  LET labels == [i \in 1..(count + 1) |-> ElementLabel(i - 1)]
      some == {[id |-> 7, entities |-> labels]}
                \cup (IF unv_plain
                        THEN {[id |-> 7, entities |-> <<labels[i]>>] :
                                i \in DOMAIN labels}
                               \cup {[id |-> b, entities |-> <<labels[1]>>] :
                                       b \in BadTags}
                        ELSE {})
  IN  {[found |-> f, groups |-> <<>>] : f \in {"eof", "other", "cut"}}
      \cup {[found |-> "groups", groups |-> <<g>>] : g \in some}
      \cup {[found |-> "groups",
             groups |-> <<[id |-> 7, entities |-> labels],
                          [id |-> 9, entities |-> <<labels[1]>>]>>] :
              x \in IF unv_plain THEN {1} ELSE {}}

\* the entity records of a line of a group, every line taken as full
n_fragments_of_full_line(line, n_entities) == 2

\* const unsigned int n_lines =
\*   (n_entities % 2 == 0) ? (n_entities / 2) : ((n_entities + 1) / 2);
n_lines(n_entities) ==
  IF n_entities % 2 = 0 THEN n_entities \div 2 ELSE (n_entities + 1) \div 2

\* if (line == n_lines - 1) n_fragments = (n_entities % 2 == 0) ? (2) : (1);
\* else n_fragments = 2;
n_fragments(line, n_entities) ==
  IF line = n_lines(n_entities) - 1
    THEN (IF n_entities % 2 = 0 THEN 2 ELSE 1)
    ELSE 2

\* the entity records that the two loops over the lines and the fragments
\* of a group read, from line on
RECURSIVE fragments_read(_, _)
fragments_read(line, n_entities) ==
  IF line >= n_lines(n_entities)
    THEN 0
    ELSE n_fragments(line, n_entities) + fragments_read(line + 1, n_entities)

\* the labels of the entity records read for group g; one read beyond the
\* list of the group has no label of an element
listed(g) ==
  LET n == fragments_read(0, Len(g.entities))
  IN  {g.entities[i] : i \in 1..(IF n < Len(g.entities)
                                   THEN n ELSE Len(g.entities))}

\* cells[cell_indices[no]].material_id = id, for the entities of a group
set_group_id(es, indices, entities, id) ==
  [i \in 1..Len(es) |->
     IF \E no \in entities \cap DOMAIN indices : indices[no] = i - 1
       THEN [es[i] EXCEPT !.material_id = narrow_id(id)]
       ELSE es[i]]

\* the same for the groups gs, one after the other
RECURSIVE set_group_ids(_, _, _)
set_group_ids(es, indices, gs) ==
  IF gs = <<>>
    THEN es
    ELSE set_group_ids(set_group_id(es, indices, listed(Head(gs)), Head(gs).id),
                       indices, Tail(gs))

\* the -1 that ends section 2412, then the optional section 2467 or 2477
read_unv_groups ==
  /\ pc = "unv_cells"
  /\ \E g \in UnvGroups, tmp \in {2467, 2477} :
       /\ count' = count
       /\ narrowed' =
            (narrowed \/ (/\ g.found = "groups"
                          /\ \E i \in DOMAIN g.groups :
                               /\ ~id_asserts_hold(g.groups[i].id)
                               /\ listed(g.groups[i])
                                    \cap (DOMAIN cell_indices
                                            \cup DOMAIN line_indices
                                            \cup DOMAIN quad_indices) # {}))
       /\ IF g.found = "eof"
            THEN /\ Goto("unv_end")
                 /\ in_ok' = FALSE /\ consumed' = consumed + 1
                 /\ UNCHANGED <<cells, boundary_lines, boundary_quads, unv>>
            ELSE IF g.found = "other"
            THEN /\ IF ~expected_section(2411, 3)
                      THEN Throw("ExcUnknownSectionType")
                      ELSE Goto("unv_end")
                 /\ consumed' = consumed + 2 /\ UNCHANGED in_ok
                 /\ sections' = Append(sections, 2411)
                 /\ UNCHANGED <<cells, boundary_lines, boundary_quads, groups>>
            ELSE IF g.found = "cut"
            THEN /\ Throw("ExcIO")
                 /\ in_ok' = FALSE /\ consumed' = consumed + 2
                 /\ sections' = Append(sections, tmp)
                 /\ UNCHANGED <<cells, boundary_lines, boundary_quads, groups>>
            ELSE /\ Goto("unv_end")
                 /\ consumed' = consumed + 2 + Len(g.groups) /\ UNCHANGED in_ok
                 /\ sections' = Append(sections, tmp)
                 /\ groups' =
                      [i \in DOMAIN g.groups |->
                         [id |-> g.groups[i].id,
                          entities |-> g.groups[i].entities,
                          read |-> fragments_read(0, Len(g.groups[i].entities))]]
                 /\ cells' = set_group_ids(cells, cell_indices, g.groups)
                 /\ boundary_lines' =
                      set_group_ids(boundary_lines, line_indices, g.groups)
                 /\ boundary_quads' =
                      set_group_ids(boundary_quads, quad_indices, g.groups)
  /\ UNCHANGED <<cfg, format, n_vertices, n_cells, vertices, vertex_indices,
                 maps, unresolved, abaqus, assimp, records, out>>

\* Assert(subcelldata.check_consistency(dim)), the canonicalizer, the sink
read_unv_end ==
  /\ pc = "unv_end"
  /\ IF debug /\ ~check_consistency(dim)
       THEN Abort("ExcInternalError") /\ UNCHANGED <<mesh, out>>
       ELSE hand_over(vertices, "delete_unused_vertices", dim = spacedim, "done")
  /\ UNCHANGED <<cfg, format, hdr, io>>

(***************************************************************************)
(* read_msh                                                                *)
(***************************************************************************)
\* the element types that have a branch: 1 line, 3 quadrangle,
\* 5 hexahedron, 15 point
MshLive(d) == IF d = 1 THEN {1, 15}
              ELSE IF d = 2 THEN {3, 1, 15}
              ELSE {5, 3, 1, 15}

MshVerts(t) == IF t = 15 THEN 1 ELSE IF t = 1 THEN 2
               ELSE IF t = 3 THEN 4 ELSE 8

\* in 1d a chain of two lines with a point on the vertex between them
\* takes one vertex and one record more than the cells of the other
\* readers; version 2 files are given them
MshBound(b) == IF dim = 1 /\ gmsh_file_format = 22 THEN b + 1 ELSE b

\* the $Entities section of a version 4 file: none, or curves and surfaces
\* with one physical tag, with none, and (the last) with two
EntitiesSections ==
  LET one == {[dim |-> 1, tag |-> 2, physicals |-> <<7>>],
              [dim |-> 2, tag |-> 1, physicals |-> <<9>>],
              [dim |-> 1, tag |-> 1, physicals |-> <<>>]}
  IN  {{}, one,
       one \cup {[dim |-> 2, tag |-> 2, physicals |-> <<7, 9>>]}}

\* int physical_tag = 0; for (j < n_physicals) in >> physical_tag;
\* tag_maps[d][tag] = physical_tag; for the points, curves, surfaces and
\* volumes of the section
physical_tags(es) ==
  [k \in {<<e.dim, e.tag>> : e \in es} |->
     LET e == CHOOSE x \in es : <<x.dim, x.tag>> = k
     IN  IF e.physicals = <<>> THEN 0 ELSE e.physicals[Len(e.physicals)]]

\* the header of a block with the entity's dimension always read second
dimEntity_second == block[2]

\* in >> tagEntity >> dimEntity >> ... (4.0);
\* in >> dimEntity >> tagEntity >> ... (4.1)
dimEntity == IF gmsh_file_format = 40 THEN block[2] ELSE block[1]

tagEntity == IF gmsh_file_format = 40 THEN block[1] ELSE block[2]

\* material_id = tag_maps[dimEntity][tagEntity]; an entity the maps lack
\* is inserted with 0
material_id ==
  IF <<dimEntity, tagEntity>> \in DOMAIN tag_maps
    THEN tag_maps[<<dimEntity, tagEntity>>]
    ELSE 0

\* the element records: version 2 files vary the tag and the node ids
\* (in 1d with the second line of a chain among them),
\* version 1 files the number-of-nodes field, version 4 files neither
\* (their elements have the id of their block);
\* 2 is a triangle, 11 a tetrahedron, 4 some other type, 0 the end of the
\* stream
MshRecords(d, v) ==
  {[cell_type |-> 1, material_id |-> 7, nod_num |-> 2,
    vertices |-> <<NativeId(1), NativeId(2)>>] :
     t \in IF d = 1 /\ v = 22 THEN {1} ELSE {}}
  \cup
  UNION {{[cell_type |-> t, material_id |-> x.tag, nod_num |-> MshVerts(t),
           vertices |-> x.verts] :
            x \in IF v = 22 THEN Variants(MshVerts(t))
                  ELSE {[tag |-> IF v >= 40 THEN material_id ELSE 7,
                         verts |-> VertTuple(MshVerts(t), 1, 1)]}} :
         t \in MshLive(d)}
  \cup {[cell_type |-> t, material_id |-> 7, nod_num |-> MshVerts(t) + 1,
         vertices |-> VertTuple(MshVerts(t), 1, 1)] :
          t \in IF v = 10 THEN MshLive(d) ELSE {}}
  \cup {[cell_type |-> t, material_id |-> IF v >= 40 THEN material_id ELSE 7,
         nod_num |-> 0, vertices |-> <<>>] :
          t \in {0, 2, 4, 11} \cup ({3, 5} \ MshLive(d))}

\* Assert(tria != nullptr); AssertThrow(in, ExcIO()); the file format, the
\* rest of the header and the blocks before $Nodes
read_msh_begin ==
  /\ pc = "begin" /\ format = "msh"
  /\ IF ~in_ok
       THEN /\ Throw("ExcIO")
            /\ UNCHANGED <<io, gmsh_file_format, tag_maps, Entities>>
       ELSE \E v \in {0, 10, 22, 40, 41} :
            \E es \in (IF v >= 40 THEN EntitiesSections ELSE {{}}) :
              IF v = 0
                THEN /\ Throw("ExcInvalidGMSHInput")
                     /\ in_ok' = FALSE
                     /\ UNCHANGED <<consumed, gmsh_file_format, tag_maps,
                                    Entities>>
                ELSE /\ gmsh_file_format' = v
                     /\ consumed' = consumed + 1
                     /\ Entities' = es
                     /\ UNCHANGED in_ok
                     /\ IF \E e \in es : Len(e.physicals) >= 2
                          THEN /\ Throw("ExcMessage: More than one tag")
                               /\ UNCHANGED tag_maps
                          ELSE /\ Goto("msh_nodes")
                               /\ tag_maps' = physical_tags(es)
  /\ UNCHANGED <<cfg, format, hdr, vertices, vertex_indices, cells,
                 boundary_lines, boundary_quads, boundary_ids_1d,
                 cell_indices, line_indices, quad_indices, numElements,
                 structured, face_boundary_ids, block, seen, out>>

\* the first two numbers of the header of an entity block of elements
BlockHeaders == {<<1, 2>>, <<2, 1>>, <<1, 1>>}

\* the nodes list, its end marker, the elements marker and the counts that
\* follow it; a version 4 file has its elements in entity blocks with
\* counts of their own
read_msh_nodes ==
  /\ pc = "msh_nodes"
  /\ \E nv \in 0..MshBound(MaxVertices), nc \in 0..MshBound(EntryBound),
        ne \in 0..MshBound(EntryBound),
        found \in {"nothing", "nodes", "elements"},
        b \in (IF gmsh_file_format >= 40 THEN BlockHeaders ELSE {<<>>}) :
       IF found = "nothing"
         THEN /\ Throw("ExcInvalidGMSHInput")
              /\ in_ok' = FALSE
              /\ UNCHANGED <<hdr, vertices, vertex_indices, consumed,
                             numElements, block>>
         ELSE IF found = "nodes"
           THEN /\ Throw("ExcInvalidGMSHInput")
                /\ consumed' = consumed + nv
                /\ UNCHANGED <<hdr, vertices, vertex_indices, in_ok,
                               numElements, block>>
           ELSE /\ Goto("msh_cells")
                /\ n_vertices' = nv
                /\ vertices' = vertex_block(nv, nv).vertices
                /\ vertex_indices' = vertex_block(nv, nv).vertex_indices
                /\ n_cells' = nc
                /\ numElements' = IF gmsh_file_format < 40 THEN nc ELSE ne
                /\ block' = b
                /\ consumed' = consumed + nv + 1
                /\ UNCHANGED <<count, in_ok>>
  /\ UNCHANGED <<cfg, format, cells, boundary_lines, boundary_quads,
                 boundary_ids_1d, cell_indices, line_indices, quad_indices,
                 gmsh_file_format, structured, face_boundary_ids, tag_maps,
                 Entities, seen, out>>

\* the last branch with every type reported alike
cannot_read_any_alike(cell_type) == "ExcGmshUnsupportedGeometry"

\* the last branch of the loop: AssertThrow(cell_type != 2, ...);
\* AssertThrow(cell_type != 11, ...);
\* AssertThrow(false, ExcGmshUnsupportedGeometry(cell_type)); a type that
\* could not be read is 0 and ends here as well
cannot_read(cell_type) ==
  IF cell_type = 2 THEN "ExcMessage: triangles"
  ELSE IF cell_type = 11 THEN "ExcMessage: tetrahedra"
  ELSE "ExcGmshUnsupportedGeometry"

\* one pass of the loop over the element records
read_msh_cell ==
  /\ pc = "msh_cells" /\ count < numElements
  /\ IF ~in_ok
       THEN Throw("ExcIO") /\ UNCHANGED <<count, io, mesh>>
       ELSE \E r \in MshRecords(dim, gmsh_file_format) :
         /\ count' = count + 1
         /\ LET is_cell == /\ \/ (r.cell_type = 1 /\ dim = 1)
                              \/ (r.cell_type = 3 /\ dim = 2)
                              \/ (r.cell_type = 5 /\ dim = 3)
                           /\ r.nod_num = vertices_per_cell(dim)
                is_line == r.cell_type = 1 /\ (dim = 2 \/ dim = 3)
                is_quad == r.cell_type = 3 /\ dim = 3
                translated ==
                  /\ is_cell \/ is_line \/ is_quad
                  /\ ~(debug /\ ~id_asserts_hold(r.material_id))
                stored ==
                  \/ translated /\ (all_known(r.vertices) \/ (is_quad /\ ~debug))
                  \/ r.cell_type = 15 /\ dim = 1
            IN  /\ unresolved' =
                     (unresolved \/ (translated /\ ~all_known(r.vertices)))
                /\ narrowed' =
                     (narrowed \/ (stored /\ ~id_asserts_hold(r.material_id)))
                /\ records' = Append(records, r)
                /\ UNCHANGED <<unv, abaqus, assimp>>
         /\ IF r.cell_type = 0
              THEN in_ok' = FALSE /\ UNCHANGED consumed
              ELSE consumed' = consumed + 1 /\ UNCHANGED in_ok
         /\ UNCHANGED <<vertices, cell_indices, line_indices, quad_indices,
                        gmsh_file_format, numElements, structured,
                        face_boundary_ids, ent>>
         /\ IF \/ (r.cell_type = 1 /\ dim = 1)
               \/ (r.cell_type = 3 /\ dim = 2)
               \/ (r.cell_type = 5 /\ dim = 3)
              THEN \* found a cell
                /\ UNCHANGED <<boundary_lines, boundary_quads, vertex_indices,
                               boundary_ids_1d>>
                /\ IF r.nod_num # vertices_per_cell(dim)
                     THEN Throw("ExcMessage: number of nodes")
                          /\ UNCHANGED cells
                     ELSE IF debug /\ ~id_asserts_hold(r.material_id)
                       THEN Abort("ExcIndexRange") /\ UNCHANGED cells
                       ELSE IF ~all_known(r.vertices)
                         THEN /\ Throw("ExcInvalidVertexIndexGmsh")
                              /\ UNCHANGED cells
                         ELSE /\ cells' = Append(cells,
                                   [vertices |-> to_consecutive(r.vertices, 0),
                                    material_id |-> narrow_id(r.material_id),
                                    manifold_id |-> flat_manifold_id])
                              /\ Goto("msh_cells")
              ELSE IF r.cell_type = 1 /\ (dim = 2 \/ dim = 3)
              THEN \* boundary info
                /\ UNCHANGED <<cells, boundary_quads, vertex_indices,
                               boundary_ids_1d>>
                /\ IF debug /\ ~id_asserts_hold(r.material_id)
                     THEN Abort("ExcIndexRange") /\ UNCHANGED boundary_lines
                     ELSE IF ~all_known(r.vertices)
                       THEN /\ Throw("ExcInvalidVertexIndex")
                            /\ UNCHANGED boundary_lines
                       ELSE /\ boundary_lines' = Append(boundary_lines,
                                 [vertices |-> to_consecutive(r.vertices, 0),
                                  material_id |-> narrow_id(r.material_id),
                                  manifold_id |-> flat_manifold_id])
                            /\ Goto("msh_cells")
              ELSE IF r.cell_type = 3 /\ dim = 3
              THEN \* boundary info; a missing node id is looked at in debug
                   \* builds only
                /\ UNCHANGED <<cells, boundary_lines, vertex_indices,
                               boundary_ids_1d>>
                /\ IF debug /\ ~id_asserts_hold(r.material_id)
                     THEN Abort("ExcIndexRange") /\ UNCHANGED boundary_quads
                     ELSE IF debug /\ ~all_known(r.vertices)
                       THEN /\ Abort("ExcInvalidVertexIndex")
                            /\ UNCHANGED boundary_quads
                       ELSE /\ boundary_quads' = Append(boundary_quads,
                                 [vertices |->
                                    to_consecutive(r.vertices,
                                                   invalid_unsigned_int),
                                  material_id |-> narrow_id(r.material_id),
                                  manifold_id |-> flat_manifold_id])
                            /\ Goto("msh_cells")
              ELSE IF r.cell_type = 15
              THEN \* a point: in 1d its tag is kept for the vertex
                /\ UNCHANGED <<cells, boundary_lines, boundary_quads>>
                /\ Goto("msh_cells")
                /\ IF dim = 1
                     THEN LET node_index == r.vertices[1]
                              m == inserted(vertex_indices, {node_index})
                          IN  /\ vertex_indices' = m
                              /\ boundary_ids_1d' =
                                   (m[node_index] :> narrow_id(r.material_id))
                                     @@ boundary_ids_1d
                     ELSE UNCHANGED <<vertex_indices, boundary_ids_1d>>
              ELSE \* cannot read this
                /\ UNCHANGED <<cells, boundary_lines, boundary_quads,
                               vertex_indices, boundary_ids_1d>>
                /\ Throw(cannot_read(r.cell_type))
  /\ UNCHANGED <<cfg, format, n_vertices, n_cells, out>>

\* AssertDimension(global_cell, n_cells); the end marker;
\* Assert(subcelldata.check_consistency(dim)); AssertThrow(in, ExcIO());
\* AssertThrow(cells.size() > 0, ExcGmshNoCellInformation());
\* the canonicalizer and the sink; in 1d the post-pass follows
read_msh_end ==
  /\ pc = "msh_cells" /\ count = numElements
  /\ \E marker \in BOOLEAN :
       IF debug /\ count # n_cells
         THEN Abort("ExcDimensionMismatch") /\ UNCHANGED <<mesh, out, io>>
         ELSE IF ~marker
           THEN /\ Throw("ExcInvalidGMSHInput")
                /\ in_ok' = FALSE
                /\ UNCHANGED <<mesh, out, consumed>>
           ELSE /\ consumed' = consumed + 1
                /\ UNCHANGED in_ok
                /\ IF debug /\ ~check_consistency(dim)
                     THEN Abort("ExcInternalError") /\ UNCHANGED <<mesh, out>>
                     ELSE IF ~in_ok
                       THEN Throw("ExcIO") /\ UNCHANGED <<mesh, out>>
                       ELSE IF Len(cells) = 0
                         THEN /\ Throw("ExcGmshNoCellInformation")
                              /\ UNCHANGED <<mesh, out>>
                         ELSE hand_over(vertices, "delete_unused_vertices", dim = spacedim,
                                        IF dim = 1 THEN "msh_1d" ELSE "done")
  /\ UNCHANGED <<cfg, format, hdr>>

\* cell->at_boundary(f) for the face of a 1d cell at vertex v: no other
\* cell has a face there
at_boundary(cs, v) ==
  Cardinality({x \in {<<c, f>> : c \in DOMAIN cs, f \in 1..2} :
                 cs[x[1]].vertices[x[2]] = v}) = 1

\* assign_1d_boundary_ids(boundary_ids_1d, *tria): the ids go to the faces
\* of the active cells of the triangulation that has just been created
assign_1d_boundary_ids ==
  /\ pc = "msh_1d"
  /\ LET cs == tria[Len(tria)].mesh.cells
         met == {cs[c].vertices[f] : c \in DOMAIN cs, f \in 1..2}
                  \cap DOMAIN boundary_ids_1d
     IN  IF \E v \in met : ~at_boundary(cs, v)
           THEN /\ Throw("ExcMessage: not at the boundary")
                /\ face_boundary_ids' \in
                     {[v \in d |-> boundary_ids_1d[v]] :
                        d \in SUBSET {v \in met : at_boundary(cs, v)}}
           ELSE /\ Return
                /\ face_boundary_ids' = [v \in met |-> boundary_ids_1d[v]]
  /\ UNCHANGED <<cfg, format, hdr, io, vertices, vertex_indices, cells,
                 boundary_lines, boundary_quads, boundary_ids_1d,
                 cell_indices, line_indices, quad_indices, gmsh_file_format,
                 numElements, structured, ent, seen, out>>

(***************************************************************************)
(* read_abaqus                                                             *)
(***************************************************************************)
\* Assert(tria != nullptr); Assert(the instance is one of <2,2>, <3,3>,
\* <2,3>); AssertThrow(in, ExcIO()); the constructor of Abaqus_to_UCD:
\* AssertThrow(spacedim == 2 || spacedim == 3, ExcNotImplemented());
\* read_in_abaqus(in) up to the first std::getline of its loop
read_abaqus ==
  /\ pc = "begin" /\ format = "abaqus"
  /\ IF debug /\ ~(\/ (spacedim = 2 /\ dim = spacedim)
                   \/ (spacedim = 3 /\ (dim = spacedim \/ dim = spacedim - 1)))
       THEN Abort("ExcNotImplemented") /\ UNCHANGED <<io, abaqus, assimp>>
       ELSE IF ~in_ok
         THEN Throw("ExcIO") /\ UNCHANGED <<io, abaqus, assimp>>
         ELSE IF ~(spacedim = 2 \/ spacedim = 3)
           THEN Throw("ExcNotImplemented") /\ UNCHANGED <<io, abaqus, assimp>>
           ELSE \E s \in AbaqusStreams :
                  LET a == getline(Scan(s))
                  IN  /\ abaqus' = a
                      /\ consumed' = consumed + 1
                      /\ UNCHANGED in_ok
                      /\ Goto(IF a.ok THEN "scan" ELSE "write")
  /\ UNCHANGED <<cfg, format, hdr, vertices, vertex_indices, cells,
                 boundary_lines, boundary_quads, maps, unresolved, narrowed,
                 records, unv, assimp, out>>

\* read_in_abaqus from the label cont to the next goto cont, or to the
\* std::getline of the outer loop and, when that fails, the return.  An
\* exception leaves read_abaqus as it is; an access outside cell_list, a
\* comma without a value or an overflow may end the process or go on
read_in_abaqus ==
  /\ pc = "scan"
  /\ LET b == handle(abaqus)
     IN  IF b.fault \notin {"none", "ub"}
           THEN Throw(b.fault) /\ abaqus' = b
           ELSE \E ends \in (IF b.fault = "ub" THEN BOOLEAN ELSE {FALSE}) :
                  IF ends
                    THEN Abort("undefined behaviour") /\ abaqus' = b
                    ELSE /\ abaqus' = [b EXCEPT !.fault = "none"]
                         /\ Goto(IF held(abaqus).key = "*ELSET" \/ b.ok
                                   THEN "scan" ELSE "write")
  /\ UNCHANGED <<cfg, format, hdr, io, vertices, vertex_indices, cells,
                 boundary_lines, boundary_quads, maps, unresolved, narrowed,
                 records, unv, assimp, out>>

\* output << node_list.size() << "\t"
\*        << cell_list.size() + face_list.size() << "\t0\t0\t0";
header_of(a) == <<Len(a.node_list), Len(a.cell_list) + Len(a.face_list)>>

\* the line of cell or face e (entry 0 its material or boundary id, the
\* others its nodes) under the keyword t, every number written as a double
entity_line(e, t) ==
  [cell_type |-> t, material_id |-> shown(e[1]),
   vertices |-> [i \in 1..(Len(e) - 1) |-> shown(e[i + 1])]]

\* what write_out_avs_ucd writes: the header, the number of every node
\* (its coordinates are left out), the lines of the cells and of the faces
ucd_text(a) ==
  [header |-> header_of(a),
   nodes |-> [i \in DOMAIN a.node_list |-> shown(a.node_list[i][1])],
   records |->
     [i \in DOMAIN a.cell_list |->
        entity_line(a.cell_list[i], IF dim = 2 THEN "quad" ELSE "hex")]
     \o [i \in DOMAIN a.face_list |->
          entity_line(a.face_list[i], IF dim = 2 THEN "line" ELSE "quad")]]

\* std::stringstream in_ucd; abaqus_to_ucd.write_out_avs_ucd(in_ucd): the
\* header, the nodes, the cells as "quad" or "hex" and the faces as
\* "line" or "quad"; then read_ucd(in_ucd, ...) inside try/catch
\* The object is not used after that: of the history, only that the
\* stream was read to its end is kept, and the text written
write_out_avs_ucd ==
  /\ pc = "write"
  /\ abaqus' = [NoScan EXCEPT !.eof = TRUE, !.ok = FALSE,
                              !.in_ucd = ucd_text(abaqus)]
  /\ Goto("in_ucd")
  /\ UNCHANGED <<cfg, format, hdr, io, vertices, vertex_indices, cells,
                 boundary_lines, boundary_quads, maps, unresolved, narrowed,
                 records, unv, assimp, out>>

(***************************************************************************)
(* read_dbmesh                                                             *)
(***************************************************************************)
\* Assert(tria != nullptr); Assert(dim == 2); AssertThrow(in, ExcIO());
\* the identifier, "Dimension", the fields up to "# END", "Vertices",
\* "Edges", "CrackedEdges", "Quadrilaterals" and the number of cells
read_dbmesh_begin ==
  /\ pc = "begin" /\ format = "dbmesh"
  /\ IF debug /\ dim # 2
       THEN Abort("ExcNotImplemented") /\ UNCHANGED <<hdr, io, vertices>>
       ELSE IF ~in_ok
         THEN Throw("ExcIO") /\ UNCHANGED <<hdr, io, vertices>>
         ELSE \E found \in {"nothing", "Dimension", "Vertices",
                            "Quadrilaterals"},
                 nv \in 0..MaxVertices, nc \in 0..EntryBound :
           IF found = "nothing"
             THEN /\ Throw("ExcInvalidDBMESHInput")
                  /\ UNCHANGED <<hdr, io, vertices>>
             ELSE IF found = "Dimension"
               THEN /\ Throw("ExcDBMESHWrongDimension")
                    /\ consumed' = consumed + 1
                    /\ UNCHANGED <<hdr, in_ok, vertices>>
               ELSE IF found = "Vertices"
                 THEN /\ Throw("ExcInvalidDBMeshFormat")
                      /\ in_ok' = FALSE
                      /\ consumed' = consumed + 2
                      /\ UNCHANGED <<hdr, vertices>>
                 ELSE /\ Goto("dbmesh_cells")
                      /\ n_vertices' = nv
                      /\ vertices' = [i \in 1..nv |-> i - 1]
                      /\ n_cells' = nc
                      /\ consumed' = consumed + 3
                      /\ UNCHANGED <<count, in_ok>>
  /\ UNCHANGED <<cfg, format, vertex_indices, cells, boundary_lines,
                 boundary_quads, aux, out>>

\* one pass of the loop over the cells: the vertex numbers are 1-based and
\* looked at one by one; a failed extraction leaves 0
read_dbmesh_cell ==
  /\ pc = "dbmesh_cells" /\ count < n_cells
  /\ \E b \in 0..(MaxVertices + 1) :
       LET vs == VertTuple(vertices_per_cell(dim), 1, b)
       IN  /\ count' = count + 1
           /\ IF \A i \in DOMAIN vs : vs[i] >= 1 /\ vs[i] <= Len(vertices)
                THEN /\ cells' = Append(cells,
                                        CellData([i \in DOMAIN vs |-> vs[i] - 1]))
                     /\ consumed' = consumed + 1
                     /\ Goto("dbmesh_cells")
                ELSE /\ Throw("ExcInvalidVertexIndex")
                     /\ UNCHANGED <<cells, consumed>>
  /\ UNCHANGED <<cfg, format, n_vertices, n_cells, in_ok, vertices,
                 vertex_indices, boundary_lines, boundary_quads, aux, out>>

\* AssertThrow(in, ExcInvalidDBMeshFormat()); the fields up to "End";
\* Assert(subcelldata.check_consistency(dim)); AssertThrow(in, ExcIO());
\* the canonicalizer, with the inversion in every instance, and the sink
read_dbmesh_end ==
  /\ pc = "dbmesh_cells" /\ count = n_cells
  /\ \E found \in {"nothing", "End"} :
       IF found = "nothing"
         THEN /\ Throw("ExcIO") /\ in_ok' = FALSE
              /\ UNCHANGED <<consumed, mesh, out>>
         ELSE /\ consumed' = consumed + 1
              /\ UNCHANGED in_ok
              /\ IF debug /\ ~check_consistency(dim)
                   THEN Abort("ExcInternalError") /\ UNCHANGED <<mesh, out>>
                   ELSE hand_over(vertices, "delete_unused_vertices", TRUE, "done")
  /\ UNCHANGED <<cfg, format, hdr>>

(***************************************************************************)
(* read_xda                                                                *)
(***************************************************************************)
xda_to_dealII_map == <<0, 1, 5, 4, 3, 2, 6, 7>>

\* the vertices of a cell as read_xda stores them
xda_cell(d, xda_ordered_nodes) ==
  IF d = 3 THEN [i \in 1..8 |-> xda_ordered_nodes[xda_to_dealII_map[i] + 1]]
           ELSE xda_ordered_nodes

\* GridIn<2>::read_xda and GridIn<3>::read_xda: AssertThrow(in, ExcIO());
\* the numbers of cells and of vertices; every other instance:
\* Assert(false, ExcNotImplemented())
read_xda_begin ==
  /\ pc = "begin" /\ format = "xda"
  /\ IF ~(dim = spacedim /\ dim \in {2, 3})
       THEN /\ IF debug THEN Abort("ExcNotImplemented") ELSE Return
            /\ UNCHANGED <<hdr, io>>
       ELSE IF ~in_ok
         THEN Throw("ExcIO") /\ UNCHANGED <<hdr, io>>
         ELSE \E nv \in 0..MaxVertices, nc \in 0..EntryBound :
                /\ Goto("xda_cells")
                /\ n_vertices' = nv
                /\ n_cells' = nc
                /\ consumed' = consumed + 1
                /\ UNCHANGED <<count, in_ok>>
  /\ UNCHANGED <<cfg, format, mesh, out>>

\* one pass of the loop over the cells; the vertex numbers are stored as
\* they are read (cut: the stream ends here and the extraction leaves 0)
read_xda_cell ==
  /\ pc = "xda_cells" /\ count < n_cells
  /\ IF ~in_ok
       THEN Throw("ExcIO") /\ UNCHANGED <<count, io, cells>>
       ELSE \E b \in 0..MaxVertices, cut \in BOOLEAN :
              LET n == vertices_per_cell(dim)
                  nodes == IF cut THEN [i \in 1..n |-> 0]
                                  ELSE VertTuple(n, 0, b)
              IN  /\ count' = count + 1
                  /\ cells' = Append(cells, CellData(xda_cell(dim, nodes)))
                  /\ in_ok' = ~cut
                  /\ consumed' = IF cut THEN consumed ELSE consumed + 1
                  /\ Goto("xda_cells")
  /\ UNCHANGED <<cfg, format, n_vertices, n_cells, vertices, vertex_indices,
                 boundary_lines, boundary_quads, aux, out>>

\* the vertices, AssertThrow(in, ExcIO()), the canonicalizer and the sink
read_xda_end ==
  /\ pc = "xda_cells" /\ count = n_cells
  /\ \E whole \in BOOLEAN :
       IF ~in_ok \/ ~whole
         THEN Throw("ExcIO") /\ in_ok' = FALSE
              /\ UNCHANGED <<consumed, mesh, out>>
         ELSE /\ consumed' = consumed + n_vertices
              /\ UNCHANGED in_ok
              /\ hand_over([i \in 1..n_vertices |-> i - 1],
                           "delete_unused_vertices", TRUE, "done")
  /\ UNCHANGED <<cfg, format, hdr>>

(***************************************************************************)
(* read_tecplot                                                            *)
(***************************************************************************)
\* the cells of a structured zone of I x J points; the points are numbered
\* from 1
structured_cells(I, J) ==
  [c \in 1..((I - 1) * (J - 1)) |->
     LET j == (c - 1) \div (I - 1)
         i == ((c - 1) % (I - 1)) + 1
     IN  CellData(<<i + j * I, i + 1 + j * I, i + 1 + (j + 1) * I,
                    i + (j + 1) * I>>)]

\* the headers looked at: one that parse_tecplot_header rejects, a
\* structured zone, an unstructured zone
TecplotHeaders ==
  {[kind |-> "bad", I |-> 0, J |-> 0, n_vertices |-> 0, n_cells |-> 0]}
  \cup {[kind |-> "structured", I |-> I, J |-> J, n_vertices |-> I * J,
         n_cells |-> (I - 1) * (J - 1)] :
          I \in 1..MaxVertices, J \in 1..MaxVertices}
  \cup {[kind |-> "unstructured", I |-> 0, J |-> 0, n_vertices |-> nv,
         n_cells |-> nc] : nv \in 1..MaxVertices, nc \in 0..MaxFileEntries}

\* GridIn<2>::read_tecplot: AssertThrow(in, ExcIO()); the header; the
\* vertices behind an unused vertex 0; the cells of a structured zone;
\* every other instance: Assert(false, ExcNotImplemented())
read_tecplot_begin ==
  /\ pc = "begin" /\ format = "tecplot"
  /\ IF ~(dim = 2 /\ spacedim = 2)
       THEN /\ IF debug THEN Abort("ExcNotImplemented") ELSE Return
            /\ UNCHANGED <<hdr, io, vertices, cells, structured>>
       ELSE IF ~in_ok
         THEN Throw("ExcIO")
              /\ UNCHANGED <<hdr, io, vertices, cells, structured>>
         ELSE \E h \in TecplotHeaders :
                IF h.kind = "bad"
                  THEN /\ Throw("ExcMessage: tecplot header")
                       /\ consumed' = consumed + 1
                       /\ UNCHANGED <<hdr, in_ok, vertices, cells, structured>>
                  ELSE /\ n_vertices' = h.n_vertices
                       /\ n_cells' = h.n_cells
                       /\ vertices' = [i \in 1..(h.n_vertices + 1) |-> i - 1]
                       /\ consumed' = consumed + 2
                       /\ UNCHANGED in_ok
                       /\ structured' = (h.kind = "structured")
                       /\ IF h.kind = "structured"
                            THEN /\ cells' = structured_cells(h.I, h.J)
                                 /\ count' = h.n_cells
                            ELSE UNCHANGED <<cells, count>>
                       /\ Goto("tecplot_cells")
  /\ UNCHANGED <<cfg, format, vertex_indices, boundary_lines,
                 boundary_quads, boundary_ids_1d, cell_indices, line_indices,
                 quad_indices, gmsh_file_format, numElements,
                 face_boundary_ids, ent, seen, out>>

\* one pass of the loop over the connectivity of an unstructured zone
read_tecplot_cell ==
  /\ pc = "tecplot_cells" /\ count < n_cells
  /\ IF ~in_ok
       THEN Throw("ExcIO") /\ UNCHANGED <<count, io, cells>>
       ELSE \E b \in 0..(MaxVertices + 1), cut \in BOOLEAN :
              /\ count' = count + 1
              /\ cells' = Append(cells,
                   CellData(IF cut THEN <<0, 0, 0, 0>>
                                   ELSE VertTuple(4, 1, b)))
              /\ in_ok' = ~cut
              /\ consumed' = IF cut THEN consumed ELSE consumed + 1
              /\ Goto("tecplot_cells")
  /\ UNCHANGED <<cfg, format, n_vertices, n_cells, vertices, vertex_indices,
                 boundary_lines, boundary_quads, aux, out>>

\* the vertex clean-up, Assert(subcelldata.check_consistency(dim)),
\* AssertThrow(in, ExcIO()), the inversion, the reordering and the sink
read_tecplot_end ==
  /\ pc = "tecplot_cells" /\ count = n_cells
  /\ LET cleanup == IF structured THEN "delete_duplicated_vertices"
                                  ELSE "delete_unused_vertices"
         fine == IndicesInRange(vertices, cells, boundary_lines,
                                boundary_quads)
     IN  IF ~in_ok
           THEN /\ \E crash \in (IF fine THEN {FALSE} ELSE BOOLEAN) :
                     IF crash THEN Abort("out of bounds") ELSE Throw("ExcIO")
                /\ steps' = Append(steps, cleanup)
                /\ UNCHANGED <<mesh, tria>>
           ELSE hand_over(vertices, cleanup, TRUE, "done")
  /\ UNCHANGED <<cfg, format, hdr, io>>

(***************************************************************************)
(* read_netcdf                                                             *)
(***************************************************************************)
\* read_netcdf(filename): not in 1d, not implemented for <2,3>, needs the
\* NetCDF library; the file is checked as it is read, the vertex numbers
\* for being >= 0 only
read_netcdf ==
  /\ pc = "begin" /\ format = "netcdf"
  /\ IF dim = 1
       THEN Throw("ExcImpossibleInDim")
            /\ UNCHANGED <<hdr, consumed, vertices, cells, boundary_quads>>
       ELSE IF dim # spacedim
         THEN /\ IF debug THEN Abort("ExcNotImplemented") ELSE Return
              /\ UNCHANGED <<hdr, consumed, vertices, cells, boundary_quads>>
         ELSE \E with_netcdf \in BOOLEAN, valid \in BOOLEAN,
                 nv \in 0..MaxVertices, nc \in 0..MaxFileEntries,
                 nq \in 0..(IF dim = 3 THEN 1 ELSE 0), b \in 0..MaxVertices :
           IF ~with_netcdf
             THEN /\ Throw("ExcNeedsNetCDF")
                  /\ UNCHANGED <<hdr, consumed, vertices, cells,
                                 boundary_quads>>
             ELSE IF ~valid
               THEN /\ Throw("ExcIO")
                    /\ UNCHANGED <<hdr, consumed, vertices, cells,
                                   boundary_quads>>
               ELSE /\ Goto("netcdf_end")
                    /\ n_vertices' = nv
                    /\ n_cells' = nc
                    /\ count' = nc
                    /\ consumed' = consumed + 1
                    /\ vertices' = [i \in 1..nv |-> i - 1]
                    /\ cells' = [i \in 1..nc |->
                         CellData(VertTuple(vertices_per_cell(dim), 0, b))]
                    /\ boundary_quads' = [i \in 1..nq |->
                         CellData(VertTuple(4, 0, b))]
  /\ UNCHANGED <<cfg, format, in_ok, vertex_indices, boundary_lines, aux,
                 out>>

\* GridIn<2>::read_netcdf: delete_unused_vertices, reorder_cells, the sink;
\* GridIn<3>::read_netcdf: with the inversion in between
read_netcdf_end ==
  /\ pc = "netcdf_end"
  /\ hand_over(vertices, "delete_unused_vertices", dim = 3, "done")
  /\ UNCHANGED <<cfg, format, hdr, io>>

(***************************************************************************)
(* read_assimp                                                             *)
(***************************************************************************)
\* the tolerances and the coordinates of the vertices of a scene
Tolerances == {1, 2}

Coordinates == 0..2

\* the vertices of the cells of a scene: all in the first vertex but the
\* last, or one after the other
AssimpCells(nc, b, spread) ==
  [k \in 1..nc |->
     CellData(IF spread
                THEN [i \in 1..vertices_per_cell(dim) |->
                        (k + i - 2) % (MaxVertices + 1)]
                ELSE VertTuple(vertices_per_cell(dim), 0, b))]

\* read_assimp(filename, mesh_index, remove_duplicates, tol, ...): without
\* the library Assert(false, ExcNeedsAssimp()); with it AssertThrow(dim <
\* 3, ...), the scene, the meshes of the scene; a scene without a cell
\* ends the call
read_assimp ==
  /\ pc = "begin" /\ format = "assimp"
  /\ \E with_assimp \in BOOLEAN, scene \in BOOLEAN,
        nc \in 0..MaxFileEntries, b \in 0..MaxVertices, spread \in BOOLEAN,
        remove_duplicates \in BOOLEAN, tol \in Tolerances,
        v \in [1..(MaxVertices + 1) -> Coordinates] :
       IF ~with_assimp
         THEN /\ IF debug THEN Abort("ExcNeedsAssimp") ELSE Return
              /\ UNCHANGED <<hdr, consumed, vertices, cells, assimp>>
         ELSE IF dim = 3
           THEN /\ Throw("ExcImpossibleInDim")
                /\ UNCHANGED <<hdr, consumed, vertices, cells, assimp>>
           ELSE IF ~scene
             THEN /\ Throw("ExcMessage: assimp")
                  /\ UNCHANGED <<hdr, consumed, vertices, cells, assimp>>
             ELSE /\ n_vertices' = MaxVertices + 1
                  /\ n_cells' = nc
                  /\ count' = nc
                  /\ consumed' = consumed + 1
                  /\ vertices' = v
                  /\ cells' = AssimpCells(nc, b, spread)
                  /\ assimp' = [remove_duplicates |-> remove_duplicates,
                                tol |-> tol, n_verts |-> 0]
                  /\ IF nc = 0 THEN Return
                     ELSE IF remove_duplicates THEN Goto("assimp_merge")
                     ELSE Goto("assimp_end")
  /\ UNCHANGED <<cfg, format, in_ok, vertex_indices, boundary_lines,
                 boundary_quads, maps, unresolved, narrowed, records, unv,
                 abaqus, out>>

\* while (n_verts != vertices.size()), after if (remove_duplicates)
merging_stops_after_one_pass == assimp.n_verts = 0

merging_goes_on == assimp.n_verts # Len(vertices)

\* one turn of the loop: n_verts = vertices.size();
\* GridTools::delete_duplicated_vertices(vertices, cells, subcelldata,
\* considered_vertices, tol); or the end of the loop
read_assimp_merge ==
  /\ pc = "assimp_merge"
  /\ IF merging_goes_on
       THEN LET m == delete_duplicated_vertices(vertices, cells, assimp.tol)
            IN  /\ assimp' = [assimp EXCEPT !.n_verts = Len(vertices)]
                /\ vertices' = m.vertices
                /\ cells' = m.cells
                /\ steps' = Append(steps, "delete_duplicated_vertices")
                /\ Goto("assimp_merge")
                /\ UNCHANGED tria
       ELSE /\ Goto("assimp_end")
            /\ UNCHANGED <<assimp, vertices, cells, out>>
  /\ UNCHANGED <<cfg, format, hdr, io, vertex_indices, boundary_lines,
                 boundary_quads, maps, unresolved, narrowed, records, unv,
                 abaqus>>

\* delete_unused_vertices, the inversion when dim == spacedim,
\* reorder_cells, the sink
read_assimp_end ==
  /\ pc = "assimp_end"
  /\ hand_over(vertices, "delete_unused_vertices", dim = spacedim, "done")
  /\ UNCHANGED <<cfg, format, hdr, io>>

Next ==
  \/ call_parser
  \/ read_stream
  \/ read_file
  \/ read_ucd_begin
  \/ read_ucd_vertices
  \/ read_ucd_cell
  \/ read_ucd_end
  \/ read_vtk_begin
  \/ read_vtk_cell
  \/ read_vtk_cell_data
  \/ read_vtk_end
  \/ read_unv_begin
  \/ read_unv_vertices
  \/ read_unv_cell
  \/ read_unv_groups
  \/ read_unv_end
  \/ read_msh_begin
  \/ read_msh_nodes
  \/ read_msh_cell
  \/ read_msh_end
  \/ assign_1d_boundary_ids
  \/ read_abaqus
  \/ read_in_abaqus
  \/ write_out_avs_ucd
  \/ read_dbmesh_begin
  \/ read_dbmesh_cell
  \/ read_dbmesh_end
  \/ read_xda_begin
  \/ read_xda_cell
  \/ read_xda_end
  \/ read_tecplot_begin
  \/ read_tecplot_cell
  \/ read_tecplot_end
  \/ read_netcdf
  \/ read_netcdf_end
  \/ read_assimp
  \/ read_assimp_merge
  \/ read_assimp_end

Spec == Init /\ [][Next]_vars

(***************************************************************************)
(* Properties.                                                             *)
(***************************************************************************)
\* the call has ended with an exception or a failed assertion
Failed == pc = "done" /\ result \in {"fail", "abort"}

\* the call has returned
Succeeded == pc = "done" /\ result = "ok"

\* how often step s was made
times(s) == Cardinality({i \in DOMAIN steps : steps[i] = s})

\* the sink was called
SinkCalled == times("create_triangulation") > 0

\* the sink has thrown on what it was given
SinkRefused == tria # <<>> /\ ~tria[Len(tria)].created

\* the positions at which a parser has collected its mesh and is about to
\* canonicalize it and hand it over
AtHandOver == pc \in {"ucd_end", "vtk_end", "unv_end", "msh_end",
                      "dbmesh_end", "xda_end", "tecplot_end", "netcdf_end",
                      "assimp_end"}

\* C1: a read that ends in failure (other than by the sink itself refusing
\* what it is given) has not called the sink's construct operation; this
\* includes a failure of the 1d boundary id pass at the end of read_msh.
C1_FailedReadMadeNoSinkCall ==
  (Failed /\ ~SinkRefused) => ~SinkCalled

\* C1, the failing case: read_msh in 1d has created the triangulation of a
\* chain of two lines and then fails in assign_1d_boundary_ids, a point
\* element being on the vertex between them.
C1_MshFailsAfterSinkCall ==
  /\ format = "msh" /\ dim = 1
  /\ Failed /\ error = "ExcMessage: not at the boundary"
  /\ SinkCalled /\ tria[Len(tria)].created
  /\ Len(tria[Len(tria)].mesh.vertices) = 3
  /\ Len(tria[Len(tria)].mesh.cells) = 2
  /\ tria[Len(tria)].mesh.cells[1].vertices = <<0, 1>>
  /\ tria[Len(tria)].mesh.cells[2].vertices = <<1, 2>>

\* C2: in every read that succeeds the steps made are, in this order and
\* each once: delete_unused_vertices, the inversion exactly when
\* dim = spacedim, reorder_cells, one call of the sink.
C2_StepsOfSuccessfulRead ==
  Succeeded =>
    steps = canonical_steps("delete_unused_vertices", dim = spacedim)
              \o <<"create_triangulation">>

\* C2, the failing case: GridIn<2>::read_netcdf succeeds with
\* dim = spacedim = 2 and has not made the inversion step.
C2_NetcdfSucceedsWithoutInversion ==
  /\ format = "netcdf" /\ dim = 2 /\ spacedim = 2
  /\ Succeeded
  /\ times("create_triangulation") = 1
  /\ times("invert_all_cells_of_negative_grid") = 0

\* C3: whenever a parser hands its mesh over, every vertex index of every
\* cell, boundary line and boundary quad is smaller than the number of
\* vertices: in what the parser has collected when it starts the hand-over,
\* and in what the sink receives.
C3_VertexIndicesValidAtHandOver ==
  /\ AtHandOver =>
       IndicesInRange(vertices, cells, boundary_lines, boundary_quads)
  /\ \A i \in DOMAIN tria :
       IndicesInRange(tria[i].mesh.vertices, tria[i].mesh.cells,
                      tria[i].mesh.boundary_lines,
                      tria[i].mesh.boundary_quads)

\* C3, the failing case: read_vtk has handed the sink a cell with an index
\* that is no vertex.
C3_VtkHandsOverIndexOutOfRange ==
  /\ format = "vtk" /\ pc = "done" /\ SinkCalled
  /\ ~IndicesInRange(tria[Len(tria)].mesh.vertices, tria[Len(tria)].mesh.cells,
                     tria[Len(tria)].mesh.boundary_lines,
                     tria[Len(tria)].mesh.boundary_quads)

\* the cells and sub-entities a parser has collected
n_collected == Len(cells) + Len(boundary_lines) + Len(boundary_quads)

\* C4: in read_ucd and read_msh a cell, boundary line or boundary quad
\* that names a vertex id the vertex id map lacks ends the read with an
\* invalid-vertex-index error, and the sink is not called.
C4_AbsentVertexIdFails ==
  (format \in {"ucd", "msh"} /\ unresolved) =>
    /\ Failed
    /\ error \in {"ExcInvalidVertexIndex", "ExcInvalidVertexIndexGmsh"}
    /\ ~SinkCalled

\* C4, the failing case: a release build of read_ucd has stored the
\* placeholder for the absent vertex id of a boundary quad, gone on, and
\* called the sink.
C4_UcdQuadPlaceholderReachesSink ==
  /\ format = "ucd" /\ dim = 3 /\ ~debug
  /\ unresolved
  /\ SinkCalled

\* C5: in read_unv an element of section 2412 that names a vertex id
\* section 2411 has not defined ends the read in failure, and reading the
\* elements leaves the vertex id map as section 2411 built it.
C5_UnvAbsentVertexIdFails ==
  format = "unv" =>
    /\ unresolved => Failed
    /\ DOMAIN vertex_indices \subseteq
         {NativeId(i) : i \in 0..(n_vertices - 1)}

\* C5, the failing case: read_unv succeeds on an element that names the
\* undefined vertex id 2; the id has become a key of the map, with value 0.
C5_UnvResolvesAbsentIdToZero ==
  /\ format = "unv" /\ Succeeded /\ unresolved
  /\ 2 \in DOMAIN vertex_indices
  /\ vertex_indices[2] = 0
  /\ tria[Len(tria)].created

\* C6: in read_vtk and read_ucd every declared entry handled so far has
\* become one cell or one sub-entity, and when the read succeeds their
\* number is the declared count.
C6_VtkUcdCountsMatch ==
  format \in {"vtk", "ucd"} =>
    /\ pc \in {"vtk_cells", "ucd_cells"} => n_collected = count
    /\ Succeeded => n_collected = n_cells

\* C6, its case: a successful read of two declared entries, one of which
\* became a cell and the other a sub-entity.
C6_TwoEntriesOneCellOneSubEntity ==
  /\ format \in {"vtk", "ucd"} /\ Succeeded
  /\ n_cells = 2 /\ Len(cells) = 1
  /\ Len(boundary_lines) + Len(boundary_quads) = 1

\* C7: when read_msh succeeds, the cells, boundary lines and boundary
\* quads collected are as many as the element count declared after
\* $ELM / $Elements.
C7_MshCountsMatch ==
  (format = "msh" /\ Succeeded) => n_collected = n_cells

\* C7, the failing case: a version 2 file declares two elements, a cell
\* and a point; the read succeeds with one cell and no sub-entity.
C7_MshPointIsNoEntity ==
  /\ format = "msh" /\ Succeeded /\ gmsh_file_format = 22
  /\ n_cells = 2 /\ count = 2
  /\ n_collected = 1

\* C8: no tag that the id type does not hold, or that equals the reserved
\* value, is ever narrowed and stored as a material, boundary or manifold
\* id: the read fails first.
C8_NoBadTagStored == ~narrowed

\* C8, the failing case: a release build of read_ucd succeeds having
\* stored such a tag.
C8_UcdStoresBadTag ==
  /\ format = "ucd" /\ ~debug /\ Succeeded /\ narrowed
  /\ tria[Len(tria)].created

\* a read by name that leaves the format to the suffix has passed the point
\* where the format is fixed
AutoRead == call.entry = "file" /\ call.format = "Default" /\ pc # "idle"

\* name ends in a dot and the characters e
ends_in(name, e) ==
  /\ Len(name) > Len(e)
  /\ SubSeq(name, Len(name) - Len(e), Len(name)) = <<".">> \o e

\* the parser each suffix of the dispatcher's contract stands for
SuffixParser ==
  { << <<"m", "s", "h">>, "msh" >>,     << <<"v", "t", "k">>, "vtk" >>,
    << <<"u", "n", "v">>, "unv" >>,     << <<"i", "n", "p">>, "ucd" >>,
    << <<"x", "d", "a">>, "xda" >>,     << <<"n", "c">>, "netcdf" >>,
    << <<"d", "a", "t">>, "tecplot" >> }

\* C9: a read by name with the format left open runs the parser the suffix
\* stands for (msh, vtk, unv, inp for UCD, xda, nc for NetCDF, dat for
\* tecplot); read_abaqus runs only in a call that names the abaqus format.
C9_SuffixSelectsParser ==
  /\ AutoRead =>
       \A sp \in SuffixParser : ends_in(call.name, sp[1]) => format = sp[2]
  /\ format = "abaqus" => call.format = "abaqus"

\* C9, its case: a file named g.inp, read with the format left open, has
\* been read by read_ucd.
C9_InpReadAsUcd ==
  /\ AutoRead /\ call.name = <<"g", ".", "i", "n", "p">>
  /\ format = "ucd" /\ Succeeded

\* the suffixes among Suffixes that section 4.1 of the specification does
\* not list, and those that parse_format does not know
NotListed ==
  Suffixes \ {sp[1] : sp \in SuffixParser}

NotKnown ==
  NotListed \ { <<"d", "b", "m", "e", "s", "h">>, <<"u", "c", "d">>,
                <<"n", "e", "t", "c", "d", "f">>,
                <<"t", "e", "c", "p", "l", "o", "t">>, <<"p", "l", "t">> }

\* the call has failed over the format, no record was consumed, no parser
\* was reached and the sink was not called
FailedOverFormat ==
  /\ Failed /\ error = "ExcInvalidState"
  /\ format = "none" /\ consumed = 0
  /\ steps = <<>> /\ tria = <<>>

\* C10, as stated: a read by name with the format left open, on a name
\* whose suffix is none of msh, vtk, unv, inp, xda, nc, dat, fails over the
\* format; no parser consumes input and the sink is not called.
C10_UnlistedSuffixFails ==
  (AutoRead /\ \E e \in NotListed : call.name = <<"g", ".">> \o e)
    => FailedOverFormat

\* C10, amended: the same for a name whose suffix is none of the twelve
\* names parse_format knows (the seven and dbmesh, ucd, netcdf, tecplot,
\* plt).
C10_UnknownSuffixFails ==
  (AutoRead /\ \E e \in NotKnown : call.name = <<"g", ".">> \o e)
    => FailedOverFormat

\* C10, its case: the read of a file named g.txt has failed over the format.
C10_TxtFails ==
  /\ AutoRead /\ call.name = <<"g", ".", "t", "x", "t">>
  /\ FailedOverFormat

\* read(std::istream &, Format) was called for a format that has no
\* stream reader, and has passed its switch
StreamReadWithoutReader ==
  /\ call.entry = "stream" /\ call.format \in {"netcdf", "assimp"}
  /\ pc # "idle"

\* C11: read(in, netcdf) and read(in, assimp) fail at once: the call does
\* not return normally, takes nothing from the stream and does not call
\* the sink.
C11_StreamNetcdfAssimpFail ==
  StreamReadWithoutReader =>
    /\ Failed
    /\ consumed = 0
    /\ ~SinkCalled

\* C11, the failing case: a release build of read(in, netcdf) has returned
\* normally, nothing read and nothing created.
C11_ReleaseStreamNetcdfReturns ==
  /\ StreamReadWithoutReader /\ call.format = "netcdf"
  /\ ~debug /\ Succeeded
  /\ consumed = 0 /\ steps = <<>> /\ tria = <<>>

\* read_vtk, called on a stream, has got past its four header lines or has
\* failed at one of them
VtkHeaderRead ==
  call.entry = "parser" /\ call.format = "vtk" /\ pc \notin {"idle", "begin"}

\* the header lines a VTK stream must have; the second is free
RequiredLines ==
  (1 :> "# vtk DataFile Version 3.0") @@ (3 :> "ASCII")
    @@ (4 :> "DATASET UNSTRUCTURED_GRID")

\* the error that names the expected text t of a header line
names_line(t) == "ExcMessage: header line with text <" \o t \o ">"

\* C12: read_vtk accepts a stream only if line 1 is exactly
\* "# vtk DataFile Version 3.0", line 3 exactly "ASCII" and line 4 exactly
\* "DATASET UNSTRUCTURED_GRID", whatever line 2 is; the first of these lines
\* that differs fails the read with an error that names its expected text,
\* before anything of POINTS or CELLS is read.
C12_VtkHeaderLines ==
  VtkHeaderRead =>
    LET wrong == {i \in DOMAIN RequiredLines :
                    call.head[i] # RequiredLines[i]}
    IN  IF wrong = {}
          THEN \A i \in 1..4 : error # names_line(text[i])
          ELSE /\ Failed
               /\ error = names_line(RequiredLines[
                            CHOOSE i \in wrong : \A k \in wrong : i <= k])
               /\ n_vertices = 0 /\ vertices = <<>>
               /\ n_cells = 0 /\ count = 0 /\ n_collected = 0
               /\ consumed = 0 /\ ~SinkCalled

\* C12, its case: a stream whose third line is "ascii" has failed with the
\* error that names "ASCII".
C12_LowerCaseAsciiFails ==
  /\ VtkHeaderRead /\ call.head[3] = "ascii"
  /\ Failed /\ error = names_line("ASCII")

\* the place of an entry of the CELLS section in the order of the file:
\* cells 0, boundary quads 1, boundary lines 2
VtkRank(type) ==
  IF dim = 3 THEN (IF type = 8 THEN 0 ELSE IF type = 4 THEN 1 ELSE 2)
             ELSE (IF type = 4 THEN 0 ELSE 1)

\* the entries that follow an entry of a later place
OutOfOrder ==
  {j \in DOMAIN records :
     /\ records[j].type \in VtkLive(dim)
     /\ \E i \in 1..(j - 1) :
          /\ records[i].type \in VtkLive(dim)
          /\ VtkRank(records[i].type) > VtkRank(records[j].type)}

\* C13: read_vtk fails as soon as a cell entry follows a boundary quad or
\* line entry and, in 3d, as soon as a boundary quad follows a boundary
\* line: the entry out of order is the last one read and is not stored; in
\* an accepted file all cells come first, then all quads, then all lines.
C13_VtkEntriesInOrder ==
  (format = "vtk" /\ dim \in {2, 3}) =>
    /\ OutOfOrder # {} =>
         /\ Failed
         /\ OutOfOrder = {Len(records)}
         /\ n_collected = Len(records) - 1
         /\ ~SinkCalled
    /\ Succeeded => OutOfOrder = {}

\* C13, its case: in 3d a boundary quad after a boundary line has ended the
\* read.
C13_QuadAfterLineFails ==
  /\ format = "vtk" /\ dim = 3 /\ Len(records) = 2
  /\ records[1].type = 2 /\ records[2].type = 4
  /\ Failed /\ error = "ExcNotImplemented"

\* the element types read_msh stores or skips in a mesh of dimension d: the
\* cell of that dimension, the boundary line and quad, the point
MshSupported(d) ==
  {15} \cup (IF d = 1 THEN {1} ELSE IF d = 2 THEN {3, 1} ELSE {5, 3, 1})

\* C14: in read_msh, in every dimension and for every version of the file,
\* an element of type 2 ends the read with the message that names
\* triangles, one of type 11 with the message that names tetrahedra, and
\* one of any other type that is neither the cell of the dimension, a
\* boundary line or quad, nor a point with the unsupported-geometry error;
\* the sink is not called.
C14_MshUnsupportedTypes ==
  format = "msh" =>
    \A i \in DOMAIN records :
      LET t == records[i].cell_type
      IN  t \notin MshSupported(dim) =>
            /\ i = Len(records)
            /\ Failed /\ ~SinkCalled
            /\ error = IF t = 2 THEN "ExcMessage: triangles"
                       ELSE IF t = 11 THEN "ExcMessage: tetrahedra"
                       ELSE "ExcGmshUnsupportedGeometry"

\* C14, its case: a version 4.1 file read in 2d has a block of tetrahedra,
\* and the read has failed over them.
C14_TetrahedraIn2dFail ==
  /\ format = "msh" /\ dim = 2 /\ gmsh_file_format = 41
  /\ records # <<>> /\ records[Len(records)].cell_type = 11
  /\ Failed /\ error = "ExcMessage: tetrahedra" /\ tria = <<>>

\* the point elements read whose node no later point element names again
LastPoints ==
  {i \in DOMAIN records :
     /\ records[i].cell_type = 15
     /\ \A j \in (i + 1)..Len(records) :
          records[j].cell_type = 15 =>
            records[j].vertices[1] # records[i].vertices[1]}

\* C15: after a 1d read_msh every point element with tag t that names node
\* n has left boundary id t on the vertex of the mesh that carries the
\* coordinates of node n, also when the file has nodes that no cell uses
\* and that the cleanup of the vertices deletes and renumbers.
C15_PointTagOnVertexOfItsNode ==
  (format = "msh" /\ dim = 1 /\ Succeeded) =>
    LET m == tria[Len(tria)].mesh
    IN  \A i \in LastPoints :
          \A k \in DOMAIN m.vertices :
            (/\ m.vertices[k] = records[i].vertices[1]
             /\ records[i].material_id < Pow2(IdBits) - 1) =>
              /\ (k - 1) \in DOMAIN face_boundary_ids
              /\ face_boundary_ids[k - 1] = records[i].material_id

\* C15, where it breaks: the file has the nodes 1, 3 and 5, one line from
\* node 3 to node 5 and a point with tag 7 on node 3; node 1 is deleted,
\* the mesh has the vertices of the nodes 3 and 5, and the id 7 is on the
\* second of them, the vertex of node 5.
C15_TagOnVertexOfAnotherNode ==
  /\ format = "msh" /\ dim = 1 /\ Succeeded
  /\ vertex_indices = (1 :> 0) @@ (3 :> 1) @@ (5 :> 2)
  /\ \E i \in DOMAIN records :
       /\ records[i].cell_type = 15
       /\ records[i].vertices = <<3>> /\ records[i].material_id = 7
  /\ tria[Len(tria)].mesh.vertices = <<3, 5>>
  /\ boundary_ids_1d = (1 :> 7)
  /\ face_boundary_ids = (1 :> 7)

\* the physical tag the $Entities section read records for the entity of
\* dimension d and tag t; 0 when it records none
RecordedTag(d, t) ==
  LET es == {e \in Entities : e.dim = d /\ e.tag = t /\ e.physicals # <<>>}
  IN  IF es = {} THEN 0 ELSE (CHOOSE e \in es : TRUE).physicals[1]

\* the id of the elements of the block: its header is (tag, dimension) in a
\* 4.0 file and (dimension, tag) in a 4.1 file
BlockTag ==
  IF gmsh_file_format = 40 THEN RecordedTag(block[2], block[1])
                           ELSE RecordedTag(block[1], block[2])

\* C16: in a Gmsh 4.0 or 4.1 file every element of an entity block gets as
\* material or boundary id the physical tag that $Entities records for the
\* dimension and tag of the block, the header of the block being (tag,
\* dimension) in 4.0 and (dimension, tag) in 4.1; the id is 0 when the
\* entity has no physical tag or the file no $Entities section; an entity
\* with two or more physical tags fails the read.
C16_BlockElementsGetPhysicalTag ==
  (format = "msh" /\ gmsh_file_format \in {40, 41}) =>
    /\ (\E e \in Entities : Len(e.physicals) >= 2) =>
         Failed /\ records = <<>> /\ ~SinkCalled
    /\ block # <<>> =>
         /\ \A e \in Range(cells) \cup Range(boundary_lines)
                       \cup Range(boundary_quads) :
              e.material_id = BlockTag
         /\ \A v \in DOMAIN boundary_ids_1d : boundary_ids_1d[v] = BlockTag

\* C16, its case: a 4.0 file whose block header is "2 1", entity 2 of
\* dimension 1, has been read, and its cell has the physical tag 7 of that
\* curve, not the 9 of surface 1.
C16_TagOfCurveTwoInFormat40 ==
  /\ format = "msh" /\ gmsh_file_format = 40 /\ block = <<2, 1>>
  /\ Entities # {} /\ Succeeded
  /\ cells # <<>> /\ cells[1].material_id = 7

\* the ids of the cells and sub-entities collected
CollectedIds ==
  {e.material_id : e \in Range(cells) \cup Range(boundary_lines)
                           \cup Range(boundary_quads)}

\* C17: read_unv accepts the sections 2411, 2412 and then, if there is one,
\* 2467 or 2477: a first section other than 2411 and a second other than
\* 2412 fail with the unknown-section error, and so does a third of any
\* other number; when the input ends right after section 2412 the read goes
\* on to the hand-over with every id 0 and does not fail over the input.
C17_UnvSectionSequence ==
  format = "unv" =>
    /\ \A i \in DOMAIN sections :
         (\/ i = 1 /\ sections[i] # 2411
          \/ i = 2 /\ sections[i] # 2412
          \/ i = 3 /\ sections[i] \notin {2467, 2477}) =>
           /\ Failed /\ error = "ExcUnknownSectionType"
           /\ Len(sections) = i /\ ~SinkCalled
    /\ Len(sections) <= 3
    /\ (pc \in {"unv_cells", "unv_end"} \/ Succeeded) =>
         /\ Len(sections) >= 2
         /\ sections[1] = 2411 /\ sections[2] = 2412
         /\ Len(sections) = 3 => sections[3] \in {2467, 2477}
    /\ (sections = <<2411, 2412>> /\ (pc = "unv_end" \/ steps # <<>>)) =>
         /\ CollectedIds \subseteq {0}
         /\ Failed => (SinkRefused \/ error = "out of bounds")

\* C17, its case: a stream that ends right after section 2412 has been read
\* to its end and the mesh created, its cell with id 0.
C17_EndOfInputAfter2412 ==
  /\ format = "unv" /\ sections = <<2411, 2412>>
  /\ ~in_ok /\ Succeeded
  /\ cells # <<>> /\ CollectedIds = {0}

\* the id that the groups read give the element of label no: that of the
\* last group that lists it, 0 when no group does
GroupIdOf(no) ==
  LET hits == {k \in DOMAIN groups :
                 \E j \in DOMAIN groups[k].entities :
                   groups[k].entities[j] = no}
  IN  IF hits = {} THEN 0
      ELSE groups[CHOOSE k \in hits : \A h \in hits : h <= k].id

\* the entities es, found by their labels through indices, have the ids of
\* their groups
HaveGroupIds(es, indices) ==
  \A no \in DOMAIN indices :
    (indices[no] + 1) \in DOMAIN es =>
      es[indices[no] + 1].material_id = GroupIdOf(no)

\* C18: after read_unv has read the groups of a section 2467 or 2477 (with
\* ids that the id type holds), every cell, boundary line and boundary quad
\* has the id of the last group that lists its element number and 0 when no
\* group lists it; a listed number that is the number of no element raises
\* no error; for every group exactly n_entities entity records were read.
C18_UnvGroupIds ==
  (format = "unv" /\ groups # <<>>
     /\ \A k \in DOMAIN groups : groups[k].id < Pow2(IdBits)) =>
    /\ HaveGroupIds(cells, cell_indices)
    /\ HaveGroupIds(boundary_lines, line_indices)
    /\ HaveGroupIds(boundary_quads, quad_indices)
    /\ \A k \in DOMAIN groups : groups[k].read = Len(groups[k].entities)
    /\ Failed => (SinkRefused \/ error = "out of bounds")

\* C18, its case: two elements were read, then a group with id 7 that lists
\* both and a number of no element, then a group with id 9 that lists the
\* first: the first has id 9, the second id 7.
C18_LastGroupWins ==
  /\ format = "unv" /\ Succeeded /\ Len(groups) = 2
  /\ Len(groups[1].entities) = 3 /\ groups[1].read = 3
  /\ n_collected = 2 /\ CollectedIds = {7, 9}
  /\ cells # <<>> /\ cells[1].material_id = 9

\* what a record of keyword w is in a mesh of dimension d
UcdKind(w, d) ==
  IF (w = "line" /\ d = 1) \/ (w = "quad" /\ d = 2) \/ (w = "hex" /\ d = 3)
    THEN "cell"
    ELSE IF w = "line" /\ d \in {2, 3} THEN "boundary line"
    ELSE IF w = "quad" /\ d = 3 THEN "boundary quad"
    ELSE "none"

\* the records read of kind k
UcdOfKind(k) == {i \in DOMAIN records : UcdKind(records[i].cell_type, dim) = k}

\* C19: read_ucd takes a record by its keyword and the dimension: "line" is
\* a cell in 1d and a boundary line in 2d and 3d, "quad" a cell in 2d and a
\* boundary quad in 3d, "hex" a cell in 3d; a record of any other keyword
\* or combination ends the read with the error that names the keyword, and
\* the sink is not called.
C19_UcdKeywordAndDimension ==
  format = "ucd" =>
    /\ \A i \in UcdOfKind("none") :
         /\ i = Len(records)
         /\ Failed /\ ~SinkCalled
         /\ error = "ExcUnknownIdentifier: " \o records[i].cell_type
    /\ ~Failed =>
         /\ Len(cells) = Cardinality(UcdOfKind("cell"))
         /\ Len(boundary_lines) = Cardinality(UcdOfKind("boundary line"))
         /\ Len(boundary_quads) = Cardinality(UcdOfKind("boundary quad"))

\* C19, its case: in 2d a "quad" and a "line" record were read, the one is
\* a cell and the other a boundary line.
C19_QuadCellAndBoundaryLineIn2d ==
  /\ format = "ucd" /\ dim = 2 /\ Succeeded
  /\ Len(records) = 2
  /\ records[1].cell_type = "quad" /\ records[2].cell_type = "line"
  /\ Len(cells) = 1 /\ Len(boundary_lines) = 1

\* the k-th of the records read of kind kind
UcdNth(kind, k) ==
  CHOOSE i \in UcdOfKind(kind) :
    Cardinality({j \in UcdOfKind(kind) : j <= i}) = k

\* the entities es, read from the records of kind kind with tags that the
\* id type holds, have the ids id[t] and manifold[t] for their tags t
UcdIdsAre(es, kind, id, manifold) ==
  \A k \in DOMAIN es :
    LET t == records[UcdNth(kind, k)].material_id
    IN  t < Pow2(IdBits) =>
          /\ es[k].material_id = id[t]
          /\ es[k].manifold_id = manifold[t]

\* C20: read_ucd, for a record with tag t (that the id type holds): when
\* apply_all_indicators_to_manifolds is off a boundary line or quad gets
\* boundary id t and the flat manifold id, a cell material id t and the
\* flat manifold id; when it is on a boundary line or quad gets the
\* internal-face boundary id and manifold id t, a cell material id t and
\* manifold id t.
C20_UcdTagAndManifoldFlag ==
  format = "ucd" =>
    LET tag == [t \in 0..(Pow2(IdBits) - 1) |-> t]
        flat == [t \in 0..(Pow2(IdBits) - 1) |-> flat_manifold_id]
        internal == [t \in 0..(Pow2(IdBits) - 1) |-> internal_face_boundary_id]
    IN  IF call.flag
          THEN /\ UcdIdsAre(cells, "cell", tag, tag)
               /\ UcdIdsAre(boundary_lines, "boundary line", internal, tag)
               /\ UcdIdsAre(boundary_quads, "boundary quad", internal, tag)
          ELSE /\ UcdIdsAre(cells, "cell", tag, flat)
               /\ UcdIdsAre(boundary_lines, "boundary line", tag, flat)
               /\ UcdIdsAre(boundary_quads, "boundary quad", tag, flat)

\* C20, its case: with the flag on, a quad and a boundary line with tag 7
\* were read in 2d: the line has the internal-face boundary id and manifold
\* id 7, the cell material id 7 and manifold id 7.
C20_FlagOnLineGetsManifoldId ==
  /\ format = "ucd" /\ dim = 2 /\ call.flag /\ Succeeded
  /\ Len(cells) = 1 /\ Len(boundary_lines) = 1
  /\ \A i \in DOMAIN records : records[i].material_id = 7
  /\ cells[1].material_id = 7 /\ cells[1].manifold_id = 7
  /\ boundary_lines[1].material_id = internal_face_boundary_id
  /\ boundary_lines[1].manifold_id = 7

\* the entities es, stored by read_ucd for the records of kind kind, name
\* for every vertex id of their record that a vertex record carries the
\* position of that vertex record, in the order of the file
UcdVerticesAre(es, kind) ==
  \A k \in DOMAIN es :
    LET r == records[UcdNth(kind, k)]
    IN  /\ DOMAIN es[k].vertices = DOMAIN r.vertices
        /\ \A i \in DOMAIN r.vertices :
             (\E p \in DOMAIN vertices : vertices[p] = r.vertices[i]) =>
               /\ (es[k].vertices[i] + 1) \in DOMAIN vertices
               /\ vertices[es[k].vertices[i] + 1] = r.vertices[i]

GenerateCards ==
  {i \in DOMAIN abaqus.file :
     /\ abaqus.file[i].key = "*ELSET" /\ abaqus.file[i].generate
     /\ <<i, "cont">> \in Range(abaqus.log)
     /\ i < Len(abaqus.file)
     /\ abaqus.file[i + 1].key = ""
     /\ Len(abaqus.file[i + 1].nums) \in {2, 3}
     /\ Len(abaqus.file[i + 1].nums) = 3 => abaqus.file[i + 1].nums[3] >= 1}

\* start, start + step, ... up to end
RangeList(r) ==
  LET step == IF Len(r) = 3 THEN r[3] ELSE 1
  IN  [k \in 1..((r[2] - r[1]) \div step + 1) |-> r[1] + (k - 1) * step]

\* C22: once an *ELSET card with GENERATE and its range line (start, end
\* and, optionally, a step) have been handled, the set of the name of the
\* card is the ascending list start, start + step, ... of the values up to
\* end, with step 1 when the line has none; when start is above end the
\* read has failed instead.
C22_GenerateStoresRange ==
  \A i \in GenerateCards :
    LET r == abaqus.file[i + 1].nums
        n == abaqus.file[i].name
    IN  IF r[1] > r[2]
          THEN pc = "done" /\ result = "fail"
          ELSE /\ result # "fail"
               /\ n \in DOMAIN abaqus.elsets_list
               /\ abaqus.elsets_list[n] = RangeList(r)

\* C22, its case: the range line 1,5,2 has been handled and the set holds
\* 1, 3, 5.
C22_OneFiveTwoGivesOneThreeFive ==
  \E i \in GenerateCards :
    /\ abaqus.file[i + 1].nums = <<1, 5, 2>>
    /\ abaqus.elsets_list[abaqus.file[i].name] = <<1, 3, 5>>
    /\ pc = "write"

\* the lines of the text that the loop of *ELEMENT has read, in order: the
\* k-th of them made the k-th cell of cell_list
ElementLines ==
  SelectSeq([j \in DOMAIN abaqus.log |-> abaqus.log[j][1]],
            LAMBDA i : <<i, "*ELEMENT">> \in Range(abaqus.log))

\* the number the file gives the k-th cell of cell_list
ElementNumber(k) == abaqus.file[ElementLines[k]].nums[1]

\* the material the k-th cell has from its *ELEMENT card (ELSET=EB<id>, or 0)
CardMaterial(k) ==
  LET c == CHOOSE j \in 1..ElementLines[k] :
             /\ abaqus.file[j].key = "*ELEMENT"
             /\ \A h \in (j + 1)..ElementLines[k] : abaqus.file[h].key = ""
  IN  IF abaqus.file[c].nums = <<>> THEN 0 ELSE abaqus.file[c].nums[1]

\* the *SOLID SECTION cards of the text that have been handled
SolidSections ==
  {i \in DOMAIN abaqus.file :
     /\ abaqus.file[i].key = "*SOLID SECTION"
     /\ <<i, "cont">> \in Range(abaqus.log)}

\* C23: once a *SOLID SECTION card has been handled, the cells whose
\* element number in the file is a member of the set the card names have
\* the material id of the card, and every other cell has the material id
\* it had, whatever numbers the *ELEMENT section uses.
C23_SolidSectionByElementNumber ==
  \A i \in SolidSections :
    LET members == IF abaqus.file[i].name \in DOMAIN abaqus.elsets_list
                     THEN Range(abaqus.elsets_list[abaqus.file[i].name])
                     ELSE {}
    IN  pc \in {"scan", "write"} =>
          \A k \in DOMAIN abaqus.cell_list :
            abaqus.cell_list[k][1] =
              IF ElementNumber(k) \in members
                THEN material_id_of(abaqus.file[i].material)
                ELSE CardMaterial(k)

\* C23, the divergence: the elements are numbered 3, 1, 2, the set holds
\* 1 and 2, and after the card the first cell, element 3, has the material
\* id 7 of the card and the third, element 2, still has 3.
C23_MaterialOnCellOfAnotherNumber ==
  /\ pc = "write" /\ SolidSections # {}
  /\ Len(abaqus.cell_list) = 3
  /\ ElementNumber(1) = 3 /\ ElementNumber(3) = 2
  /\ abaqus.elsets_list["A"] = <<1, 2>>
  /\ abaqus.cell_list[1][1] = 7
  /\ abaqus.cell_list[3][1] = 3

\* the place of the last hyphen of s at or before i, 0 when there is none
RECURSIVE rfind_hyphen(_, _)
rfind_hyphen(s, i) ==
  IF i = 0 THEN 0
  ELSE IF s[i] = "-" THEN i ELSE rfind_hyphen(s, i - 1)

\* the integer the digits after the last hyphen of a material name form
AfterFinalHyphen(material) ==
  leading(SubSeq(material, rfind_hyphen(material, Len(material)) + 1,
                 Len(material)), 0)

\* C24: the material id a handled *SOLID SECTION card has assigned to the
\* cells of its set is the integer formed by the digits after the final
\* hyphen of the material name, for every name with a hyphen, also with
\* more than one.
C24_DigitsAfterFinalHyphen ==
  \A i \in SolidSections :
    LET material == abaqus.file[i].material
        members  == IF abaqus.file[i].name \in DOMAIN abaqus.elsets_list
                      THEN Range(abaqus.elsets_list[abaqus.file[i].name])
                      ELSE {}
    IN  (pc \in {"scan", "write"} /\ "-" \in Range(material)) =>
          \A k \in members \cap DOMAIN abaqus.cell_list :
            abaqus.cell_list[k][1] = AfterFinalHyphen(material)

\* C24, the divergence: the name A-1-2 has given the cells of the set the
\* material id 1, the number after its first hyphen, and the name M-ST-2
\* gives 0.
C24_FirstHyphenDecides ==
  \E i \in SolidSections :
    /\ pc = "write"
    /\ abaqus.file[i].material = <<"A", "-", "1", "-", "2">>
    /\ abaqus.elsets_list["A"] = <<2, 3>>
    /\ abaqus.cell_list[2][1] = 1 /\ abaqus.cell_list[3][1] = 1
    /\ material_id_of(<<"M", "-", "S", "T", "-", "2">>) = 0

\* the 1-based places of the nodes of face f, as the claim lists them
FaceTable(d, f) ==
  IF d = 2
    THEN <<(<<1, 2>>), (<<2, 3>>), (<<3, 4>>), (<<4, 1>>)>>[f]
    ELSE <<(<<1, 4, 3, 2>>), (<<5, 8, 7, 6>>), (<<1, 2, 6, 5>>),
           (<<2, 3, 7, 6>>), (<<3, 4, 8, 7>>), (<<1, 5, 8, 4>>)>>[f]

\* the nodes of cell c of cell_list (entry 1 is its material)
NodesOf(c) ==
  {abaqus.cell_list[c][j] : j \in 2..Len(abaqus.cell_list[c])}

\* the nodes get_global_node_numbers returns for cell c and face f
FaceNodes(c, f) ==
  get_global_node_numbers(abaqus.cell_list, dim, c, f).nodes

\* a face whose nodes were never set
UnsetFace(f) == \A k \in 2..Len(f) : f[k] = 0

\* C25: for every cell c of cell_list and every face f of it (1..4 in 2d,
\* 1..6 in 3d) get_global_node_numbers returns the nodes of c at the
\* places (1,2), (2,3), (3,4), (4,1), or (1,4,3,2), (5,8,7,6), (1,2,6,5),
\* (2,3,7,6), (3,4,8,7), (1,5,8,4); the places of a face differ from each
\* other, the nodes are nodes of c, the faces of c differ as sets of
\* nodes, and every face *SURFACE has pushed with nodes set is its
\* indicator and the nodes of such a face.
C25_FaceNodeTable ==
  (dim \in {2, 3}) =>
    /\ \A c \in DOMAIN abaqus.cell_list : \A f \in 1..(2 * dim) :
         LET t == FaceTable(dim, f)
         IN  /\ FaceNodes(c, f) =
                  [i \in DOMAIN t |-> abaqus.cell_list[c][t[i] + 1]]
             /\ get_global_node_numbers(abaqus.cell_list, dim, c, f).fault
                  = "none"
             /\ \A i, j \in DOMAIN t : i # j => t[i] # t[j]
             /\ Range(FaceNodes(c, f)) \subseteq NodesOf(c)
             /\ \A g \in 1..(2 * dim) :
                  f # g => Range(FaceNodes(c, f)) # Range(FaceNodes(c, g))
    /\ \A k \in DOMAIN abaqus.face_list :
         UnsetFace(abaqus.face_list[k])
         \/ \E c \in DOMAIN abaqus.cell_list : \E f \in 1..(2 * dim) :
           LET t == FaceTable(dim, f)
           IN  SubSeq(abaqus.face_list[k], 2, Len(abaqus.face_list[k])) =
                 [i \in DOMAIN t |-> abaqus.cell_list[c][t[i] + 1]]

\* C25, its case: *SURFACE with the lines "1, S1" and "2, S4" has pushed
\* the faces of a text with two cells in 3d: the nodes 1, 4, 3, 2 of the
\* first cell and the nodes 2, 3, 7, 6 of the second.
C25_FacesOfTwoHexahedra ==
  /\ dim = 3 /\ pc = "write"
  /\ Len(abaqus.cell_list) = 2
  /\ abaqus.face_list = <<(<<2, 11, 14, 13, 12>>), (<<2, 22, 23, 27, 26>>)>>

\* read_abaqus has failed
AbaqusFailed == format = "abaqus" /\ pc = "done" /\ result = "fail"

\* write_out_avs_ucd has run: what follows is the read_ucd of in_ucd
InUcdWritten ==
  abaqus.file = <<>> /\ abaqus.eof /\ ~abaqus.ok /\ abaqus.fault = "none"

\* the exceptions of the read_ucd of the model, the sink's among them
UcdErrors ==
  {"ExcIO", "ExcInvalidVertexIndex", "create_triangulation"}
  \cup {"ExcUnknownIdentifier: " \o t : t \in {"line", "quad", "hex", "tri", ""}}

\* C26: a read_abaqus that failed after in_ucd was written (in read_ucd, the
\* hand-over included) failed with the conversion error of read_abaqus; one
\* that failed before (the stream, the instance, the scan of the ABAQUS
\* text) failed with the error raised there.
C26_UcdFailureIsConversionError ==
  AbaqusFailed =>
    IF InUcdWritten
      THEN error = "ExcMessage: ABAQUS conversion"
      ELSE /\ error # "ExcMessage: ABAQUS conversion"
           /\ IF abaqus.fault # "none"
                THEN error = abaqus.fault
                ELSE error \in {"ExcIO", "ExcNotImplemented"}

\* C26, its case: the sink has refused the mesh that read_ucd handed on,
\* and the caller gets the conversion error.
C26_SinkFailureWrapped ==
  /\ AbaqusFailed /\ InUcdWritten
  /\ error = "ExcMessage: ABAQUS conversion"
  /\ cerr = <<"create_triangulation">>

\* C26, its other case: the scan failed over a GENERATE range, and the
\* caller gets that error.
C26_ScanFailureNotWrapped ==
  /\ AbaqusFailed
  /\ error = "ExcMessage: GENERATE upper bound"

\* C27 as stated: the error of a read_abaqus that failed in read_ucd is, or
\* ends with, the message of the error read_ucd raised.
C27_ErrorCarriesUcdMessage ==
  (AbaqusFailed /\ InUcdWritten) =>
    \E e \in UcdErrors :
      error \in {e, "ExcMessage: ABAQUS conversion: " \o e}

\* C27, amended: the error of a read_abaqus that failed in read_ucd is the
\* conversion error with its fixed text, and the message of the error
\* read_ucd raised has been written to std::cerr, once; a read_abaqus that
\* failed elsewhere has written nothing.
C27_UcdMessageGoesToCerr ==
  AbaqusFailed =>
    IF InUcdWritten
      THEN /\ error = "ExcMessage: ABAQUS conversion"
           /\ Len(cerr) = 1 /\ cerr[1] \in UcdErrors
      ELSE cerr = <<>>

\* C27, its case: read_ucd met a vertex id no vertex record carries; the
\* caller gets the conversion error and std::cerr the message.
C27_InvalidVertexIndexOnCerr ==
  /\ AbaqusFailed /\ InUcdWritten
  /\ error = "ExcMessage: ABAQUS conversion"
  /\ cerr = <<"ExcInvalidVertexIndex">>

\* read_assimp(filename, ...) called directly, the only way to it: the
\* stream reader of read() has no case for it
AssimpInit == Init /\ call.entry = "parser" /\ call.format = "assimp"

AssimpNext ==
  \/ call_parser
  \/ read_assimp
  \/ read_assimp_merge
  \/ read_assimp_end

\* the loop is a sequence of statements of one call: a turn that can be
\* taken is taken
AssimpSpec == AssimpInit /\ [][AssimpNext]_vars /\ WF_vars(read_assimp_merge)

\* the loop of read_assimp has ended
Merged == pc = "assimp_end" /\ assimp.remove_duplicates

\* one more pass over the vertices and cells as they are
OneMorePass == delete_duplicated_vertices(vertices, cells, assimp.tol)

\* C28: the loop of read_assimp that calls delete_duplicated_vertices with
\* the same tolerance until a pass leaves the number of vertices as it was
\* comes to its end for every scene, and one more pass over its result
\* changes neither the number of vertices nor the vertices of any cell
C28_MergingEndsAndOneMorePassChangesNothing ==
  /\ (pc = "assimp_merge") ~> Merged
  /\ [](Merged => /\ Len(OneMorePass.vertices) = Len(vertices)
                  /\ OneMorePass.cells = cells)

\* three vertices in one place, all of them in a cell: two passes merge,
\* the third leaves the one vertex as it is
C28_ThreeVerticesInOnePlaceMerged ==
  /\ Merged
  /\ n_vertices = 3 /\ Len(vertices) = 1
  /\ steps = <<"delete_duplicated_vertices", "delete_duplicated_vertices",
               "delete_duplicated_vertices">>

\* C29: the boundary lines and boundary quads a parser has collected agree
\* with the dimension at every moment of a read: none of either in 1d, no
\* boundary quads in 2d, boundary quads in 3d only; so
\* check_consistency(dim) holds where a parser asserts it before the
\* vertices and cells are put in order, as it does at every other moment,
\* and no read ends in its ExcInternalError
C29_SubCellDataConsistent ==
  /\ dim = 1 => boundary_lines = <<>> /\ boundary_quads = <<>>
  /\ dim = 2 => boundary_quads = <<>>
  /\ boundary_quads # <<>> => dim = 3
  /\ check_consistency(dim)
  /\ error # "ExcInternalError"

\* a 3d read of a UNV file at its assertion with a boundary line and a
\* boundary quad collected
C29_UnvQuadAndLineAtAssertion ==
  /\ pc = "unv_end" /\ format = "unv" /\ dim = 3
  /\ Len(boundary_quads) > 0 /\ Len(boundary_lines) > 0
  /\ check_consistency(dim)

\* a 2d read of a UCD file at its assertion with a boundary line collected
C29_UcdLineAtAssertion ==
  /\ pc = "ucd_cells" /\ count = n_cells /\ format = "ucd" /\ dim = 2
  /\ Len(boundary_lines) > 0

\* the lines of the stream that begin with '*'
StarLines == {i \in 1..Len(abaqus.file) : star(abaqus.file[i])}

\* how often the scanner has come to cont with line i, and how often the
\* loop of a section has taken line i
Dispatches(i) ==
  Cardinality({k \in DOMAIN abaqus.log : abaqus.log[k] = <<i, "cont">>})

Takings(i) ==
  Cardinality({k \in DOMAIN abaqus.log :
                 abaqus.log[k][1] = i /\ abaqus.log[k][2] # "cont"})

\* C30: while the stream is scanned, every line that begins with '*' and
\* lies before the line held has come to the dispatch at cont exactly
\* once, no such line comes to it a second time, these lines come to it in
\* the order of the file, and every line is taken by the loop of at most
\* one section, a line that begins with '*' by none
C30_KeywordLinesDispatchedOnceInOrder ==
  pc = "scan" =>
    /\ \A i \in StarLines : i < abaqus.line => Dispatches(i) = 1
    /\ \A i \in StarLines : Dispatches(i) <= 1
    /\ \A j, k \in DOMAIN abaqus.log :
         (/\ j < k
          /\ abaqus.log[j][2] = "cont" /\ abaqus.log[j][1] \in StarLines
          /\ abaqus.log[k][2] = "cont" /\ abaqus.log[k][1] \in StarLines)
           => abaqus.log[j][1] < abaqus.log[k][1]
    /\ \A i \in 1..Len(abaqus.file) : Takings(i) <= 1
    /\ \A i \in StarLines : Takings(i) = 0

\* the stream ends with the header of an *ELSET without GENERATE and
\* without a line end: the header has come to cont twice and is held still
C30_LastElsetHeaderDispatchedTwice ==
  /\ pc = "scan" /\ abaqus.eof /\ ~abaqus.nl
  /\ abaqus.line = Len(abaqus.file)
  /\ held(abaqus).key = "*ELSET" /\ ~held(abaqus).generate
  /\ Dispatches(abaqus.line) = 2

\* the line after the header of an *ELSET with GENERATE begins with '*'
\* and ends the stream: it is read as the range and does not come to cont
C30_KeywordLineReadAsRange ==
  /\ pc = "scan" /\ abaqus.line = 0 /\ abaqus.log # <<>>
  /\ \E i \in StarLines :
       /\ Dispatches(i) = 0
       /\ abaqus.log[Len(abaqus.log)] = <<i, "*ELSET">>

(***************************************************************************)
(* skip_comment_lines(in, '#') on a stream, one turn of a loop at a time.  *)
(***************************************************************************)
\* the variables of the calls of read
program ==
  <<cfg, format, pc, hdr, mesh, io, out, cerr, result, error>>

\* a parser calls skip_comment_lines(in, '#') on a stream of some text
skip_comment_lines_call ==
  /\ pc = "idle" /\ input.at = "none"
  /\ \E t \in Texts : input' = Stream(t)
  /\ UNCHANGED program

\* while (in.get(c) && c == comment_start); after the loop
\* if (in) in.putback(c), then skip_empty_lines(in)
skip_comment_lines ==
  /\ input.at = "skip_comment_lines"
  /\ LET s == get(input)
     IN  input' =
           IF ~s.fail /\ s.got = "#"
             THEN [s EXCEPT !.at = "after_comment_start"]
             ELSE IF ~s.fail
               THEN [s EXCEPT !.pos = @ - 1, !.at = "skip_empty_lines"]
               ELSE [s EXCEPT !.at = "skip_empty_lines"]
  /\ UNCHANGED program

\* while (in.get() != '\n')
at_line_end(s) == s.got = LF

\* one turn of the loop over the characters after the comment starter
skip_comment_characters ==
  /\ input.at = "after_comment_start"
  /\ LET s == get(input)
     IN  input' = IF at_line_end(s)
                    THEN [s EXCEPT !.at = "skip_comment_lines"]
                    ELSE s
  /\ UNCHANGED program

\* one turn of while (in) of skip_empty_lines: getline(in, line); a line
\* that does not consist of spaces only is put back and the function
\* returns
skip_empty_lines ==
  /\ input.at = "skip_empty_lines"
  /\ IF input.fail
       THEN input' = [input EXCEPT !.at = "returned"]
       ELSE LET s == getline_of(input)
            IN  IF not_blank(s.line)
                  THEN \E taken \in BOOLEAN :
                         input' = [putback_line(s, taken) EXCEPT
                                     !.at = "returned"]
                  ELSE input' = s
  /\ UNCHANGED program

SkipInit == Init /\ call.entry = "stream" /\ call.format = "Default"

SkipNext ==
  \/ skip_comment_lines_call
  \/ skip_comment_lines
  \/ skip_comment_characters
  \/ skip_empty_lines

SkipSpec == SkipInit /\ [][SkipNext]_vars

\* the loop over the characters of a comment line has nothing left to
\* read: every further turn leaves the stream as it is
InCommentForEver ==
  /\ input.at = "after_comment_start"
  /\ get(input) = input

\* the line of the text that begins at position p is a comment line or
\* consists of spaces only
comment_or_blank(t, p) ==
  \/ p < Len(t) /\ t[p + 1] = "#"
  \/ ~not_blank(rest_of_line(t, p))

\* the stream stands at the beginning of a line that is neither, or at the
\* end of its characters
positioned(s) ==
  \/ s.pos = Len(s.text)
  \/ /\ s.pos = 0 \/ s.text[s.pos] = LF
     /\ ~comment_or_blank(s.text, s.pos)

\* C31: skip_comment_lines returns on every finite stream, also on one that
\* ends in a comment line without a line end (the loop over the characters
\* of the comment never stands where no turn changes anything), and when it
\* has returned the stream stands at the first line that is neither a
\* comment line nor blank, or at the end
C31_SkipCommentLinesReturnsPositioned ==
  /\ ~InCommentForEver
  /\ input.at = "returned" => positioned(input)

\* the stream "#x" without a line end: the loop over the characters of the
\* comment is at the end of the stream and goes on
C31_CommentWithoutLineEndNeverLeft ==
  /\ input.text = <<"#", "x">>
  /\ InCommentForEver

\* the stream "#\n\n#\nx": returned with the stream at a comment line
C31_ReturnedAtCommentLine ==
  /\ input.at = "returned" /\ ~input.fail
  /\ input.pos < Len(input.text) /\ input.text[input.pos + 1] = "#"

(***************************************************************************)
(* The loops of read_dbmesh and read_msh that skip what they do not read,  *)
(* on a stream of lines (read_dbmesh) or of words (read_msh).             *)
(***************************************************************************)
\* the longest stream of lines or words looked at
MaxFields == 3

Words == {"# END", "$EndPhysicalNames", "$EndPartitionedEntities",
          "Vertices", "$Nodes"}

Fields == UNION {[1..n -> Words] : n \in 0..MaxFields}

\* the loops and the word each of them waits for
Marker ==
  [read_dbmesh |-> "# END",
   PhysicalNames |-> "$EndPhysicalNames",
   PartitionedEntities |-> "$EndPartitionedEntities"]

\* read_dbmesh or read_msh comes to one of the loops on a stream of some
\* lines or words; line is "Dimension" or the name of the block
skip_to_marker_call ==
  /\ pc = "idle" /\ input.at = "none"
  /\ \E t \in Fields, loop \in DOMAIN Marker :
       input' = [Stream(t) EXCEPT !.at = loop, !.line = loop]
  /\ UNCHANGED program

\* getline(in, line) of a stream of lines: a stream that is good is asked
\* for a line, and line is empty when there is none
dbmesh_getline(s) ==
  LET r == get(s)
  IN  IF is_good(s) THEN [r EXCEPT !.line = r.got] ELSE r

\* in >> line: line keeps its value when no word is left
msh_word(s) ==
  LET r == get(s)
  IN  IF r.fail THEN r ELSE [r EXCEPT !.line = r.got]

\* one turn of while (getline(in, line), line.find("# END") ==
\* std::string::npos); the loop left, skip_empty_lines(in) follows
dbmesh_fields_turn(s) ==
  LET r == dbmesh_getline(s)
  IN  IF r.line # Marker.read_dbmesh THEN r ELSE [r EXCEPT !.at = "returned"]

read_dbmesh_fields ==
  /\ input.at = "read_dbmesh"
  /\ input' = dbmesh_fields_turn(input)
  /\ UNCHANGED program

\* one turn of do { in >> line; } while (line != "$EndPhysicalNames"), or
\* "$EndPartitionedEntities"; the loop left, in >> line follows
msh_block_turn(s) ==
  LET r == msh_word(s)
  IN  IF r.line # Marker[s.at] THEN r
      ELSE [msh_word(r) EXCEPT !.at = "returned"]

read_msh_block ==
  /\ input.at \in {"PhysicalNames", "PartitionedEntities"}
  /\ input' = msh_block_turn(input)
  /\ UNCHANGED program

MarkerNext ==
  \/ skip_to_marker_call
  \/ read_dbmesh_fields
  \/ read_msh_block

MarkerSpec == SkipInit /\ [][MarkerNext]_vars

\* a loop stands where a turn changes nothing: it goes on for ever
MarkerAwaitedForEver ==
  \/ input.at = "read_dbmesh" /\ dbmesh_fields_turn(input) = input
  \/ /\ input.at \in {"PhysicalNames", "PartitionedEntities"}
     /\ msh_block_turn(input) = input

\* C32: the loops that skip up to "# END" (read_dbmesh), to
\* "$EndPhysicalNames" and to "$EndPartitionedEntities" (read_msh) come to
\* their end on every finite stream: on a stream that ends before the
\* marker none of them stands where no turn changes anything
C32_SkipToMarkerEnds == ~MarkerAwaitedForEver

\* read_dbmesh on a stream that ends before "# END": the stream has failed
\* and the loop goes on
C32_EndOfDbmeshFieldsAwaitedForEver ==
  /\ input.at = "read_dbmesh" /\ input.fail
  /\ input.text = <<"Vertices">>
  /\ MarkerAwaitedForEver

\* read_msh on a stream that ends before "$EndPhysicalNames"
C32_EndPhysicalNamesAwaitedForEver ==
  /\ input.at = "PhysicalNames" /\ input.fail
  /\ \A i \in DOMAIN input.text : input.text[i] # "$EndPhysicalNames"
  /\ MarkerAwaitedForEver

\* the lines of the text of the scan that are *ELSET cards with GENERATE
\* whose range line, of two or three numbers with start <= end and any
\* step, is the last line the scan has read
AcceptedRanges ==
  {i \in DOMAIN abaqus.file :
     /\ abaqus.file[i].key = "*ELSET" /\ abaqus.file[i].generate
     /\ abaqus.log # <<>>
     /\ abaqus.log[Len(abaqus.log)] = <<i + 1, "*ELSET">>
     /\ abaqus.file[i + 1].key = ""
     /\ Len(abaqus.file[i + 1].nums) \in {2, 3}
     /\ abaqus.file[i + 1].nums[1] <= abaqus.file[i + 1].nums[2]}

\* C33: once the range line of an *ELSET card with GENERATE has been read,
\* with start <= end and whatever step, the loop that fills the set has
\* come to its end: the set of the name of the card is there and the scan
\* goes on, it has neither run out of memory nor left the defined
\* behaviour
C33_GenerateEndsForEveryStep ==
  \A i \in AcceptedRanges :
    /\ abaqus.file[i].name \in DOMAIN abaqus.elsets_list
    /\ abaqus.fault = "none"
    /\ pc = "scan" /\ result = "none"

\* the range line 1,3,0: the read ends when memory has run out
C33_StepZeroRunsOutOfMemory ==
  /\ pc = "done" /\ error = "std::bad_alloc"
  /\ \E i \in AcceptedRanges : abaqus.file[i + 1].nums = <<1, 3, 0>>

\* the range line 1,3,-1: i goes down until it overflows
C33_StepBelowZeroOverflows ==
  /\ pc = "done" /\ error = "undefined behaviour"
  /\ \E i \in AcceptedRanges : abaqus.file[i + 1].nums = <<1, 3, -1>>

\* the lines of the text that the loop of *SURFACE has read last, name an
\* element and a face number that the cells of this dimension do not have
FacesOutOfRange ==
  {i \in DOMAIN abaqus.file :
     /\ abaqus.log # <<>>
     /\ abaqus.log[Len(abaqus.log)] = <<i, "*SURFACE">>
     /\ abaqus.file[i].name \notin DOMAIN abaqus.elsets_list
     /\ Len(abaqus.file[i].nums) = 2
     /\ abaqus.file[i].nums[2] \notin 1..(2 * dim)}

\* C34: once the loop of *SURFACE has read a line whose face number is not
\* one of 1..4 (2d) or 1..6 (3d), the read has failed with the error of the
\* invalid face number of its dimension, whatever element the line names,
\* and the face list holds no face with unset nodes
C34_InvalidFaceNumberFails ==
  \A i \in FacesOutOfRange :
    /\ pc = "done" /\ result = "fail"
    /\ error = IF dim = 2 THEN "ExcMessage: Invalid face number in 2d"
                          ELSE "ExcMessage: Invalid face number in 3d"
    /\ \A k \in DOMAIN abaqus.face_list : ~UnsetFace(abaqus.face_list[k])

\* 3d, the line "1, S7": no error, and a face of four unset nodes is in the
\* face list
C34_FaceSevenOfCellOneAccepted ==
  /\ dim = 3 /\ pc \in {"scan", "write"} /\ result = "none"
  /\ \E i \in FacesOutOfRange : abaqus.file[i].nums = <<1, 7>>
  /\ abaqus.face_list = <<<<2, 0, 0, 0, 0>>>>

\* 2d, the line "1, S0": no error, and a face of two unset nodes
C34_FaceZeroAccepted ==
  /\ dim = 2 /\ pc \in {"scan", "write"} /\ result = "none"
  /\ \E i \in FacesOutOfRange : abaqus.file[i].nums = <<1, 0>>
  /\ abaqus.face_list = <<<<2, 0, 0>>>>

(***************************************************************************)
(* C35: the text of write_out_avs_ucd read back by read_ucd                *)
(***************************************************************************)
\* the lines of in_ucd that are cells, and those that are faces
CellLines ==
  SelectSeq(abaqus.in_ucd.records,
            LAMBDA l : l.cell_type = (IF dim = 2 THEN "quad" ELSE "hex"))

FaceLines ==
  SelectSeq(abaqus.in_ucd.records,
            LAMBDA l : l.cell_type # (IF dim = 2 THEN "quad" ELSE "hex"))

\* read_abaqus has ended after the read_ucd of in_ucd, and not because the
\* sink refused the mesh
ReadBack ==
  /\ format = "abaqus" /\ pc = "done" /\ InUcdWritten
  /\ cerr # <<"create_triangulation">>

\* the lists are those of a mesh: every node of a cell or face is in
\* node_list (its number is written alike in both places), every id
\* fits its type and is written in full
ListsOfAMesh ==
  \A i \in DOMAIN abaqus.in_ucd.records :
    LET l == abaqus.in_ucd.records[i]
    IN  /\ ~l.material_id.exponent
        /\ id_asserts_hold(l.material_id.digits)
        /\ l.material_id.digits >= 0
        /\ \A j \in DOMAIN l.vertices :
             \E n \in DOMAIN abaqus.in_ucd.nodes :
               l.vertices[j] = abaqus.in_ucd.nodes[n]

\* the header of in_ucd declares the vertex lines and the cell and face
\* lines that follow it
HeaderDeclaresLines ==
  abaqus.in_ucd.header =
    <<Len(abaqus.in_ucd.nodes), Len(abaqus.in_ucd.records)>>

\* read_ucd has made the cells and the boundary sub-entities of the lines,
\* one of each line, with the id of the line
LinesReadBack ==
  /\ result = "ok"
  /\ Len(cells) = Len(CellLines)
  /\ \A i \in DOMAIN cells :
       cells[i].material_id = CellLines[i].material_id.digits
  /\ LET faces == boundary_lines \o boundary_quads
     IN  /\ Len(faces) = Len(FaceLines)
         /\ \A i \in DOMAIN faces :
              faces[i].material_id = FaceLines[i].material_id.digits

\* C35 as stated, for the lists of a mesh and a call that keeps the
\* boundary ids: the header of the text write_out_avs_ucd has written
\* declares the lines that follow, and the read_ucd of the text yields one
\* cell of every entry of cell_list and one boundary sub-entity of every
\* entry of face_list, with the ids of the entries.
C35_WrittenTextReadBack ==
  (ReadBack /\ ~call.flag /\ ListsOfAMesh) =>
    HeaderDeclaresLines /\ LinesReadBack

\* C35, the input it fails on: the node numbered 100000000 is written as
\* "1e+08"; read_ucd takes 1 as the vertex number, the ExcIO of the failed
\* extraction goes to std::cerr and read_abaqus fails.
C35_NodeNumberWrittenWithExponent ==
  /\ ReadBack /\ ~call.flag /\ ListsOfAMesh
  /\ \E n \in DOMAIN abaqus.in_ucd.nodes :
       abaqus.in_ucd.nodes[n] = [digits |-> 1, exponent |-> TRUE]
  /\ result = "fail" /\ cerr = <<"ExcIO">>
  /\ tria = <<>>

\* C35, where it holds: the same mesh with the node numbered 11 is read
\* back, one cell with material 3 and one face with boundary id 2.
C35_PlateReadBack ==
  /\ ReadBack /\ ~call.flag /\ ListsOfAMesh
  /\ HeaderDeclaresLines /\ LinesReadBack
  /\ Len(cells) = 1 /\ cells[1].material_id = 3
  /\ Len(boundary_lines \o boundary_quads) = 1
  /\ (boundary_lines \o boundary_quads)[1].material_id = 2

(***************************************************************************)
(* C36: the node blocks of read_msh                                        *)
(***************************************************************************)
\* the entity blocks of a $Nodes section
MaxBlocks == 2

\* the numNodes of the entity blocks of a file
NodeBlocks ==
  UNION {[1..n -> 0..MaxVertices] : n \in 0..MaxBlocks}

\* read_msh has read "$Nodes" of a file of some format and then
\* in >> n_entity_blocks >> n_vertices [>> min_node_tag >> max_node_tag]
\* (or in >> n_vertices and n_entity_blocks = 1); of every block, the file
\* holds the header and the numNodes nodes the header declares;
\* std::vector<Point<spacedim>> vertices(n_vertices); global_vertex = 0
read_msh_nodes_call ==
  /\ pc = "idle" /\ input.at = "none"
  /\ \E gf \in {22, 40, 41}, n \in 0..MaxVertices, b \in NodeBlocks :
       input' = [at |-> "node_blocks", gmsh_file_format |-> gf,
                 n_vertices |-> n,
                 blocks |-> IF gf < 40 THEN <<n>> ELSE b,
                 entity_block |-> 0, global_vertex |-> 0, slots |-> {}]
  /\ UNCHANGED program

\* the slots vertices[global_vertex] one pass of the loop over the entity
\* blocks writes: numNodes of them, from global_vertex on
slots_of_block(global_vertex, numNodes) ==
  global_vertex..(global_vertex + numNodes - 1)

\* one pass of for (entity_block = 0; entity_block < n_entity_blocks;
\* ++entity_block): numNodes of the block (n_vertices before format 4),
\* then vertices[global_vertex] = x and ++global_vertex for every node; a
\* write outside the vector may end the process
read_msh_node_block ==
  /\ input.at = "node_blocks"
  /\ input.entity_block < Len(input.blocks)
  /\ LET numNodes == IF input.gmsh_file_format < 40
                       THEN input.n_vertices
                       ELSE input.blocks[input.entity_block + 1]
         s == slots_of_block(input.global_vertex, numNodes)
         next == [input EXCEPT !.entity_block = @ + 1,
                               !.global_vertex = @ + numNodes,
                               !.slots = @ \cup s]
     IN  \E ends \in (IF s \subseteq 0..(input.n_vertices - 1)
                        THEN {FALSE} ELSE BOOLEAN) :
           input' = IF ends THEN [next EXCEPT !.at = "ended"] ELSE next
  /\ UNCHANGED program

\* after the loop: AssertDimension(global_vertex, n_vertices); then
\* in >> line and the check of "$EndNodes", which the file holds
read_msh_nodes_end ==
  /\ input.at = "node_blocks"
  /\ input.entity_block = Len(input.blocks)
  /\ input' = [input EXCEPT !.at =
                 IF debug /\ input.global_vertex # input.n_vertices
                   THEN "ExcDimensionMismatch" ELSE "after_nodes"]
  /\ UNCHANGED program

NodeBlocksNext ==
  \/ read_msh_nodes_call
  \/ read_msh_node_block
  \/ read_msh_nodes_end

NodeBlocksSpec == SkipInit /\ [][NodeBlocksNext]_vars

\* the node section is being read, or has been
InNodeBlocks ==
  input.at \in {"node_blocks", "ended", "ExcDimensionMismatch", "after_nodes"}

\* numNodes of the blocks passed, summed
RECURSIVE sum_of(_)
sum_of(s) == IF s = <<>> THEN 0 ELSE s[1] + sum_of(Tail(s))

\* C36 as stated: while the node blocks are read, the vertex counter is
\* not above the n_vertices of the header and no slot outside
\* 0..n_vertices-1 is written; a file whose numNodes do not sum to
\* n_vertices does not get past the node section.
C36_VertexCounterWithinDeclared ==
  InNodeBlocks =>
    /\ input.global_vertex <= input.n_vertices
    /\ input.slots \subseteq 0..(input.n_vertices - 1)
    /\ (input.at = "after_nodes"
          => sum_of(input.blocks) = input.n_vertices)

\* C36, the input it fails on: a format 4.1 file declares one vertex and
\* holds two blocks of one node; the second is written to vertices[1].
C36_VertexWrittenPastDeclared ==
  /\ InNodeBlocks /\ input.gmsh_file_format = 41
  /\ input.n_vertices = 1 /\ input.blocks = <<1, 1>>
  /\ input.global_vertex = 2 /\ 1 \in input.slots
  /\ input.at = "after_nodes"

\* C36, its other failure: the blocks hold fewer nodes than declared, and
\* the read goes on behind the node section.
C36_FewerNodesThanDeclaredAccepted ==
  /\ input.at = "after_nodes" /\ ~debug
  /\ input.n_vertices = 2 /\ input.blocks = <<1>>
  /\ input.slots = {0}

(***************************************************************************)
(* C37: the structured zone of read_tecplot                                *)
(***************************************************************************)
\* the I and J of the zones
MaxI == 4

\* GridIn<2>::read_tecplot:
\* parse_tecplot_header has accepted a structured zone (IJK[d] > 0); the
\* vertices are read; unsigned int I = IJK[0], J = IJK[1]; the loops
\* for (j = 0; j < J - 1; ++j) for (i = 1; i < I; ++i) { ...; ++cell; };
\* std::vector<unsigned int> boundary_vertices(2 * I + 2 * J - 4); k = 0
read_tecplot_structured ==
  /\ pc = "idle" /\ input.at = "none"
  /\ dim = 2 /\ spacedim = 2
  /\ \E I \in 1..MaxI, J \in 1..MaxI :
       input' = [at |-> "boundary_rows", I |-> I, J |-> J,
                 cell |-> Cardinality((0..(J - 2)) \X (1..(I - 1))),
                 size |-> (2 * I + 2 * J - 4) % Pow2(UIntBits),
                 i |-> 1, j |-> 1, k |-> 0, filled |-> {}]
  /\ UNCHANGED program

\* boundary_vertices[k] = a; ++k; boundary_vertices[k] = b; ++k: the
\* places written; one behind the end of the vector may end the process
two_more(s, to) ==
  LET next == [s EXCEPT !.k = @ + 2, !.filled = @ \cup {s.k, s.k + 1}]
  IN  {[next EXCEPT !.at = a] :
         a \in (IF s.k + 1 < s.size THEN {to} ELSE {to, "ended"})}

\* one pass of for (i = 1; i < I + 1; ++i), or its end
read_tecplot_boundary_rows ==
  /\ input.at = "boundary_rows"
  /\ IF input.i < input.I + 1
       THEN \E s \in two_more(input, "boundary_rows") :
              input' = [s EXCEPT !.i = @ + 1]
       ELSE input' = [input EXCEPT !.at = "boundary_columns"]
  /\ UNCHANGED program

\* one pass of for (j = 1; j < J - 1; ++j), or its end:
\* Assert(k == boundary_vertices.size(), ExcInternalError()), then
\* GridTools::delete_duplicated_vertices
read_tecplot_boundary_columns ==
  /\ input.at = "boundary_columns"
  /\ IF input.j < (input.J - 1) % Pow2(UIntBits)
       THEN \E s \in two_more(input, "boundary_columns") :
              input' = [s EXCEPT !.j = @ + 1]
       ELSE input' = [input EXCEPT !.at =
                        IF debug /\ input.k # input.size
                          THEN "ExcInternalError"
                          ELSE "delete_duplicated_vertices"]
  /\ UNCHANGED program

StructuredNext ==
  \/ read_tecplot_structured
  \/ read_tecplot_boundary_rows
  \/ read_tecplot_boundary_columns

StructuredSpec == SkipInit /\ [][StructuredNext]_vars

\* the structured branch is at work, or was
InStructured ==
  input.at \in {"boundary_rows", "boundary_columns", "ended",
                "ExcInternalError", "delete_duplicated_vertices"}

\* C37 as stated: for every I >= 1 and J >= 1 the write index k does not
\* pass the size 2I+2J-4 of boundary_vertices, no place outside the list is
\* written, after the two loops k is the size, and the cells made are
\* (I-1)*(J-1).
C37_BoundaryVerticesFilledExactly ==
  InStructured =>
    /\ input.size = 2 * input.I + 2 * input.J - 4
    /\ input.cell = (input.I - 1) * (input.J - 1)
    /\ input.k <= input.size
    /\ input.filled \subseteq 0..(input.size - 1)
    /\ (input.at \in {"ExcInternalError", "delete_duplicated_vertices"}
          => input.k = input.size)

\* C37, the input it fails on: the zone I=2, J=1 has a list of two
\* places, and the first loop writes four.
C37_OneRowZoneWritesPastList ==
  /\ input.at = "delete_duplicated_vertices"
  /\ input.I = 2 /\ input.J = 1 /\ input.size = 2
  /\ input.k = 4 /\ input.filled = 0..3

\* C37, where it holds: the zone I=3, J=3 fills its eight places and has
\* four cells.
C37_SquareZoneFilled ==
  /\ input.at = "delete_duplicated_vertices"
  /\ input.I = 3 /\ input.J = 3 /\ input.size = 8 /\ input.cell = 4
  /\ input.k = 8 /\ input.filled = 0..7

(***************************************************************************)
(* C38: a parser called on a GridIn no triangulation is attached to        *)
(***************************************************************************)
\* the parsers that begin with
\* Assert(tria != nullptr, ExcNoTriangulationSelected()): all but read_vtk
\* and read_assimp
asserts_tria(f) == f \notin {"vtk", "assimp"}

\* a parser f is called on a GridIn constructed with tria(nullptr) and
\* never attached: the Assert at its head, in debug builds; then the
\* parsing of the stream, which throws over a stream that does not hold a
\* mesh of the format and else comes to the call of the sink
read_without_tria ==
  /\ pc = "idle" /\ input.at = "none"
  /\ \E f \in Formats, parsed \in BOOLEAN :
       input' = [at |-> IF debug /\ asserts_tria(f)
                          THEN "ExcNoTriangulationSelected"
                          ELSE IF ~parsed THEN "parser failed"
                          ELSE "create_triangulation",
                 format |-> f, dereferenced |-> FALSE]
  /\ UNCHANGED program

\* tria->create_triangulation_compatibility(vertices, cells, subcelldata)
\* with tria == nullptr: the process ends, or goes on in some way
create_triangulation_without_tria ==
  /\ input.at = "create_triangulation"
  /\ \E a \in {"ended", "returned"} :
       input' = [input EXCEPT !.at = a, !.dereferenced = TRUE]
  /\ UNCHANGED program

UnattachedNext ==
  \/ read_without_tria
  \/ create_triangulation_without_tria

UnattachedSpec == SkipInit /\ [][UnattachedNext]_vars

\* C38 as stated: a parser called without a triangulation attached ends
\* with ExcNoTriangulationSelected and does not dereference tria, whatever
\* the format.
C38_NoTriangulationSelected ==
  input.at \in {"ExcNoTriangulationSelected", "parser failed",
                "create_triangulation", "ended", "returned"} =>
    /\ input.at = "ExcNoTriangulationSelected"
    /\ ~input.dereferenced

\* C38, the input it fails on: read_vtk in a debug build has parsed its
\* stream and called the sink through the null pointer.
C38_VtkDereferencesMissingSink ==
  /\ debug /\ input.at \in {"ended", "returned"}
  /\ input.format = "vtk" /\ input.dereferenced

\* C38, where it holds: read_ucd in a debug build.
C38_UcdAssertsInDebug ==
  /\ debug /\ input.at = "ExcNoTriangulationSelected"
  /\ input.format = "ucd" /\ ~input.dereferenced

(***************************************************************************)
(* C39: a read by name of a file without suffix                            *)
(***************************************************************************)
\* the name has no suffix: no dot behind its last slash
NoSuffix(name) ==
  \A i \in DOMAIN name :
    name[i] = "." => \E j \in DOMAIN name : j > i /\ name[j] = "/"

\* C39: a read by name with the format left open, of a file whose name has
\* no suffix, does not fail over the format: the stream goes to read_ucd,
\* the parser of the default format.
C39_NoSuffixReadAsUcd ==
  (AutoRead /\ NoSuffix(call.name)) =>
    /\ format = "ucd"
    /\ error # "ExcInvalidState"

\* C39, its case: the file d.v/g, whose only dot is in the directory part,
\* has been read by read_ucd and the sink has taken the mesh.
C39_DotInDirectoryReadAsUcd ==
  /\ AutoRead /\ call.name = <<"d", ".", "v", "/", "g">>
  /\ format = "ucd" /\ Succeeded /\ SinkCalled

(***************************************************************************)
(* C40: cards that name an ELSET no card before them has defined           *)
(***************************************************************************)
\* no *ELSET card before line i carries the name
NotDefinedBefore(i, name) ==
  \A j \in 1..(i - 1) :
    ~(abaqus.file[j].key = "*ELSET" /\ abaqus.file[j].name = name)

\* the *SOLID SECTION cards handled whose set is not defined before them
EarlySections ==
  {i \in SolidSections : NotDefinedBefore(i, abaqus.file[i].name)}

\* the lines of *SURFACE read that name a set not defined before them
EarlySetFaces ==
  {i \in DOMAIN abaqus.file :
     /\ <<i, "*SURFACE">> \in Range(abaqus.log)
     /\ abaqus.file[i].name # ""
     /\ NotDefinedBefore(i, abaqus.file[i].name)}

\* the lines of *SURFACE read that name an element, or a set defined
\* before them
OtherFaces ==
  {i \in DOMAIN abaqus.file :
     <<i, "*SURFACE">> \in Range(abaqus.log)} \ EarlySetFaces

\* C40 as stated: in a text whose *SOLID SECTION cards and *SURFACE lines
\* all name a set that no *ELSET card before them defines, every cell
\* keeps the material of its *ELEMENT card, no face is added and no error
\* is raised, also when an *ELSET card of that name follows.
C40_SetNotDefinedBeforeChangesNothing ==
  (/\ format = "abaqus" /\ pc \in {"scan", "write"}
   /\ EarlySections \cup EarlySetFaces # {}
   /\ SolidSections = EarlySections /\ OtherFaces = {}) =>
    /\ abaqus.fault = "none"
    /\ abaqus.face_list = <<>>
    /\ \A k \in DOMAIN abaqus.cell_list :
         abaqus.cell_list[k][1] = CardMaterial(k)

\* C40, the input it fails on: the line "A, S3" of *SURFACE, NAME=SS4
\* with no set A; it is read as the line of an element, and a face with
\* the indicator 4 and no nodes is in the face list.
C40_FaceOfSetNeverDefined ==
  /\ format = "abaqus" /\ pc = "write"
  /\ EarlySetFaces # {} /\ SolidSections = {} /\ OtherFaces = {}
  /\ "A" \notin DOMAIN abaqus.elsets_list
  /\ Len(abaqus.face_list) = 1
  /\ abaqus.face_list[1][1] = 4 /\ UnsetFace(abaqus.face_list[1])

\* C40, where it holds: *SOLID SECTION, ELSET=A before *ELSET, ELSET=A with
\* the elements 1 and 2; both cells keep the material 3 of their card.
C40_SectionBeforeItsSet ==
  /\ format = "abaqus" /\ pc = "write"
  /\ EarlySections # {} /\ EarlySetFaces = {}
  /\ abaqus.elsets_list["A"] = <<1, 2>>
  /\ Len(abaqus.cell_list) = 2
  /\ \A k \in DOMAIN abaqus.cell_list : abaqus.cell_list[k][1] = 3

====
